---- MODULE Spec2Model ----
(***************************************************************************)
(* Baseline compatibility scanner: the JS and CSS feature matchers, the    *)
(* classifier and the report pipeline of src/cli.js, and the report viewer *)
(* of src/dashboard/components/ReportTable.tsx.                            *)
(*                                                                         *)
(* Strings the code applies string operations to (toLowerCase, endsWith,   *)
(* startsWith, includes, CSV quoting) are sequences of one-character       *)
(* strings; strings the code only compares for equality (AST node types,   *)
(* identifier names, feature keys) are plain strings.                      *)
(***************************************************************************)
EXTENDS Integers, Sequences, FiniteSets, TLC

(***************************************************************************)
(* Bounds of the model.                                                    *)
(***************************************************************************)
\* Size of a file given to a matcher: statements plus declarators (JS),
\* pseudo-classes plus declarations (CSS).
MaxNodes == 2
\* Number of files the directory traversal discovers.
MaxFiles == 2

(***************************************************************************)
(* String literals of the source.                                          *)
(***************************************************************************)
S_AbortController == <<"A", "b", "o", "r", "t", "C", "o", "n", "t", "r", "o", "l", "l", "e", "r">>
S_fetch == <<"f", "e", "t", "c", "h">>
S_fetchWithInit == <<"f", "e", "t", "c", "h", " ", "w", "i", "t", "h", " ", "i", "n", "i", "t", " ", "o", "p", "t", "i", "o", "n", "s">>
S_PromiseAllSettled == <<"P", "r", "o", "m", "i", "s", "e", ".", "a", "l", "l", "S", "e", "t", "t", "l", "e", "d">>
S_asyncAwait == <<"a", "s", "y", "n", "c", "/", "a", "w", "a", "i", "t">>
S_IntersectionObserver == <<"I", "n", "t", "e", "r", "s", "e", "c", "t", "i", "o", "n", "O", "b", "s", "e", "r", "v", "e", "r">>
S_ArrayAt == <<"A", "r", "r", "a", "y", ".", "p", "r", "o", "t", "o", "t", "y", "p", "e", ".", "a", "t">>
S_WeakRef == <<"W", "e", "a", "k", "R", "e", "f">>
S_has == <<":", "h", "a", "s">>
S_gap == <<"g", "a", "p">>
S_aspectRatio == <<"a", "s", "p", "e", "c", "t", "-", "r", "a", "t", "i", "o">>
S_containerQueries == <<"c", "o", "n", "t", "a", "i", "n", "e", "r", "-", "q", "u", "e", "r", "i", "e", "s">>
S_scrollSnap == <<"s", "c", "r", "o", "l", "l", "-", "s", "n", "a", "p">>
S_subgrid == <<"s", "u", "b", "g", "r", "i", "d">>
S_containerType == <<"c", "o", "n", "t", "a", "i", "n", "e", "r", "-", "t", "y", "p", "e">>
S_containerName == <<"c", "o", "n", "t", "a", "i", "n", "e", "r", "-", "n", "a", "m", "e">>
S_container == <<"c", "o", "n", "t", "a", "i", "n", "e", "r">>
S_gridTemplateColumns == <<"g", "r", "i", "d", "-", "t", "e", "m", "p", "l", "a", "t", "e", "-", "c", "o", "l", "u", "m", "n", "s">>
S_dotJs == <<".", "j", "s">>
S_dotCss == <<".", "c", "s", "s">>
S_js == <<"j", "s">>
S_css == <<"c", "s", "s">>
S_all == <<"a", "l", "l">>
S_baseline == <<"b", "a", "s", "e", "l", "i", "n", "e">>
S_nonBaseline == <<"n", "o", "n", "-", "b", "a", "s", "e", "l", "i", "n", "e">>
S_name == <<"n", "a", "m", "e">>
S_status == <<"s", "t", "a", "t", "u", "s">>
S_file == <<"f", "i", "l", "e">>
S_line == <<"l", "i", "n", "e">>

(***************************************************************************)
(* String operations of JavaScript, on sequences of characters.            *)
(***************************************************************************)
\* One character of String.prototype.toLowerCase.
LowerChar(c) ==
    CASE c = "A" -> "a" [] c = "B" -> "b" [] c = "C" -> "c" [] c = "D" -> "d"
      [] c = "E" -> "e" [] c = "F" -> "f" [] c = "G" -> "g" [] c = "H" -> "h"
      [] c = "I" -> "i" [] c = "J" -> "j" [] c = "K" -> "k" [] c = "L" -> "l"
      [] c = "M" -> "m" [] c = "N" -> "n" [] c = "O" -> "o" [] c = "P" -> "p"
      [] c = "Q" -> "q" [] c = "R" -> "r" [] c = "S" -> "s" [] c = "T" -> "t"
      [] c = "U" -> "u" [] c = "V" -> "v" [] c = "W" -> "w" [] c = "X" -> "x"
      [] c = "Y" -> "y" [] c = "Z" -> "z" [] OTHER -> c

toLowerCase(s) == [i \in 1..Len(s) |-> LowerChar(s[i])]

startsWith(s, p) ==
    /\ Len(p) <= Len(s)
    /\ SubSeq(s, 1, Len(p)) = p

endsWith(s, p) ==
    /\ Len(p) <= Len(s)
    /\ SubSeq(s, Len(s) - Len(p) + 1, Len(s)) = p

includes(s, p) ==
    \E i \in 0..(Len(s) - Len(p)) : SubSeq(s, i + 1, i + Len(p)) = p

(***************************************************************************)
(* Source positions.  `loc?.start?.line || 1`: a missing position, null    *)
(* and 0 are all falsy and give 1.                                         *)
(***************************************************************************)
NoLine == 0

\* LineOr1 without the default: the line as the node gives it.
LineOr1_AsGiven(line) == line

\* <position>?.start?.line || 1
LineOr1(line) == IF line = NoLine THEN 1 ELSE line

(***************************************************************************)
(* The syntax tree the JS parser returns (@babel/parser, ESTree shapes).   *)
(* Every record carries every field; a field the node does not have holds  *)
(* Undefined or an empty placeholder, as a property read in JS would.      *)
(***************************************************************************)
Undefined == "undefined"

NoObject == [type |-> Undefined, name |-> Undefined]

NoProperty == [name |-> Undefined]

NoCallee == [type |-> Undefined, name |-> Undefined, object |-> NoObject, property |-> NoProperty]

\* `decl.init` of a declarator without initializer is null.
NullInit == [type |-> "null", callee |-> NoCallee, arguments |-> <<>>, async |-> FALSE]

Identifier(n) == [type |-> "Identifier", name |-> n, object |-> NoObject, property |-> NoProperty]

MemberExpression(objType, objName, propName) ==
    [type |-> "MemberExpression", name |-> Undefined,
     object |-> [type |-> objType, name |-> objName],
     property |-> [name |-> propName]]

NewExpression(calleeName) ==
    [type |-> "NewExpression", callee |-> Identifier(calleeName), arguments |-> <<>>, async |-> FALSE]

\* `args` are the node types of the arguments.
CallExpression(callee, args) ==
    [type |-> "CallExpression", callee |-> callee, arguments |-> args, async |-> FALSE]

AwaitExpression == [type |-> "AwaitExpression", callee |-> NoCallee, arguments |-> <<>>, async |-> FALSE]

ArrowFunctionExpression(isAsync) ==
    [type |-> "ArrowFunctionExpression", callee |-> NoCallee, arguments |-> <<>>, async |-> isAsync]

NumericLiteral == [type |-> "NumericLiteral", callee |-> NoCallee, arguments |-> <<>>, async |-> FALSE]

\* A statement of Program.body; `body` holds the statements nested in it.
Statement(t, expr, decls, isAsync, nested) ==
    [type |-> t, line |-> NoLine, async |-> isAsync, callee |-> NoCallee,
     expression |-> expr, declarations |-> decls, body |-> nested]

ExpressionStatement(expr) == Statement("ExpressionStatement", expr, <<>>, FALSE, <<>>)

VariableDeclarator(init) == [init |-> init, line |-> NoLine]

VariableDeclaration(decls) == Statement("VariableDeclaration", NullInit, decls, FALSE, <<>>)

FunctionDeclaration(isAsync, nested) == Statement("FunctionDeclaration", NullInit, <<>>, isAsync, nested)

IfStatement(nested) == Statement("IfStatement", NullInit, <<>>, FALSE, nested)

(***************************************************************************)
(* The JS files the model scans: every sequence of top-level statements    *)
(* of at most MaxNodes statements and declarators, over the shapes below.  *)
(***************************************************************************)
\* new AbortController();  new IntersectionObserver(cb);  new WeakRef(o);
\* fetch(u);  fetch(u, {});  fetch(u, opts);  Promise.allSettled([]);
\* arr.at(0);  [1].at(0);  f().at(0);  await x;  foo();
ExpressionShapes ==
    {NewExpression("AbortController"), NewExpression("IntersectionObserver"), NewExpression("WeakRef"),
     CallExpression(Identifier("fetch"), <<"StringLiteral">>),
     CallExpression(Identifier("fetch"), <<"StringLiteral", "ObjectExpression">>),
     CallExpression(Identifier("fetch"), <<"StringLiteral", "Identifier">>),
     CallExpression(MemberExpression("Identifier", "Promise", "allSettled"), <<"ArrayExpression">>),
     CallExpression(MemberExpression("Identifier", "arr", "at"), <<"NumericLiteral">>),
     CallExpression(MemberExpression("ArrayExpression", Undefined, "at"), <<"NumericLiteral">>),
     CallExpression(MemberExpression("CallExpression", Undefined, "at"), <<"NumericLiteral">>),
     AwaitExpression,
     CallExpression(Identifier("foo"), <<>>)}

\* let x;  const c = new AbortController();  const w = new WeakRef(o);
\* const o = new IntersectionObserver(cb);  const f = async () => {};  const n = 1;
InitializerShapes ==
    {NullInit, NewExpression("AbortController"), NewExpression("WeakRef"),
     NewExpression("IntersectionObserver"), ArrowFunctionExpression(TRUE), NumericLiteral}

RECURSIVE DeclaratorLists(_)
DeclaratorLists(n) ==
    IF n = 0 THEN {<<>>}
    ELSE {<<VariableDeclarator(i)>> \o rest : i \in InitializerShapes, rest \in DeclaratorLists(n - 1)}

RECURSIVE StatementsOfSize(_), BodiesOfSize(_)
StatementsOfSize(n) ==
    IF n = 1
    THEN {ExpressionStatement(e) : e \in ExpressionShapes}
           \cup {FunctionDeclaration(a, <<>>) : a \in BOOLEAN}
           \cup {VariableDeclaration(ds) : ds \in DeclaratorLists(1)}
    ELSE {VariableDeclaration(ds) : ds \in DeclaratorLists(n)}
           \cup {FunctionDeclaration(FALSE, b) : b \in BodiesOfSize(n - 1)}
           \cup {IfStatement(b) : b \in BodiesOfSize(n - 1)}

BodiesOfSize(n) ==
    IF n = 0 THEN {<<>>}
    ELSE UNION {{<<s>> \o b : s \in StatementsOfSize(k), b \in BodiesOfSize(n - k)} : k \in 1..n}

\* One statement per source line: statement i and its declarators are on line i.
Numbered(body) ==
    [i \in 1..Len(body) |->
        [body[i] EXCEPT !.line = i,
                        !.declarations = [j \in 1..Len(@) |-> [@[j] EXCEPT !.line = i]]]]

JSPrograms == UNION {{Numbered(b) : b \in BodiesOfSize(n)} : n \in 0..MaxNodes}

(***************************************************************************)
(* detectJSFeatures(ast, verbose)                                          *)
(***************************************************************************)
\* { found: false, line: null }
NotFound == [found |-> FALSE, line |-> NoLine]

\* { found: true, line: <position>?.start?.line || 1 }
Found(line) == [found |-> TRUE, line |-> LineOr1(line)]

JSDetectedInit ==
    [AbortController |-> NotFound, fetch |-> NotFound, fetchWithInit |-> NotFound,
     PromiseAllSettled |-> NotFound, AsyncAwait |-> NotFound,
     IntersectionObserver |-> NotFound, ArrayAt |-> NotFound, WeakRef |-> NotFound]

\* The shapes the statement callback tests for, one predicate per `if`.
IsNewOf(expr, calleeName) == expr.type = "NewExpression" /\ expr.callee.name = calleeName

\* IsFetchStatement looking one block down as well: true of a statement whose
\* body holds a fetch call statement.
IsFetchStatement_InBlock(node) ==
    \/ /\ node.type = "ExpressionStatement"
       /\ node.expression.type = "CallExpression"
       /\ node.expression.callee.name = "fetch"
    \/ \E k \in 1..Len(node.body) :
          /\ node.body[k].type = "ExpressionStatement"
          /\ node.body[k].expression.type = "CallExpression"
          /\ node.body[k].expression.callee.name = "fetch"

IsFetchStatement(node) ==
    /\ node.type = "ExpressionStatement"
    /\ node.expression.type = "CallExpression"
    /\ node.expression.callee.name = "fetch"

HasInitObject(node) ==
    /\ Len(node.expression.arguments) > 1
    /\ node.expression.arguments[2] = "ObjectExpression"

IsAllSettledStatement(node) ==
    /\ node.type = "ExpressionStatement"
    /\ node.expression.type = "CallExpression"
    /\ node.expression.callee.type = "MemberExpression"
    /\ node.expression.callee.object.name = "Promise"
    /\ node.expression.callee.property.name = "allSettled"

IsAsyncNode(node) ==
    \/ node.type = "FunctionDeclaration" /\ node.async
    \/ node.type = "ArrowFunctionExpression" /\ node.async
    \/ node.type = "AwaitExpression"

IsArrayAtStatement(node) ==
    /\ node.type = "ExpressionStatement"
    /\ node.expression.type = "CallExpression"
    /\ node.expression.callee.type = "MemberExpression"
    /\ node.expression.callee.property.name = "at"
    /\ \/ node.expression.callee.object.type = "ArrayExpression"
       \/ node.expression.callee.object.type = "Identifier"

\* The callback of node.declarations.forEach.
JSVisitDeclarator(d, decl) ==
    LET d1 == IF IsNewOf(decl.init, "AbortController") /\ ~d.AbortController.found
              THEN [d EXCEPT !.AbortController = Found(decl.line)]
              ELSE d
    IN  IF IsNewOf(decl.init, "WeakRef") /\ ~d1.WeakRef.found
        THEN [d1 EXCEPT !.WeakRef = Found(decl.line)]
        ELSE d1

RECURSIVE JSVisitDeclarators(_, _)
JSVisitDeclarators(d, decls) ==
    IF decls = <<>> THEN d
    ELSE JSVisitDeclarators(JSVisitDeclarator(d, Head(decls)), Tail(decls))

\* JSVisitNode with the test of the init object beside the test of the plain
\* call instead of inside it: the variant is found on any fetch statement.
JSVisitNode_InitOnItsOwn(d, node) ==
    LET d1 == IF IsNewOf(node, "AbortController") /\ ~d.AbortController.found
              THEN [d EXCEPT !.AbortController = Found(node.line)]
              ELSE IF node.type = "VariableDeclaration"
                   THEN JSVisitDeclarators(d, node.declarations)
                   ELSE d
        d2a == IF IsFetchStatement(node) /\ ~d1.fetch.found
               THEN [d1 EXCEPT !.fetch = Found(node.line)]
               ELSE d1
        d2 == IF IsFetchStatement(node) /\ HasInitObject(node) /\ ~d2a.fetchWithInit.found
              THEN [d2a EXCEPT !.fetchWithInit = Found(node.line)]
              ELSE d2a
        d3 == IF IsAllSettledStatement(node) /\ ~d2.PromiseAllSettled.found
              THEN [d2 EXCEPT !.PromiseAllSettled = Found(node.line)]
              ELSE d2
        d4 == IF IsAsyncNode(node) /\ ~d3.AsyncAwait.found
              THEN [d3 EXCEPT !.AsyncAwait = Found(node.line)]
              ELSE d3
        d5 == IF IsNewOf(node, "IntersectionObserver") /\ ~d4.IntersectionObserver.found
              THEN [d4 EXCEPT !.IntersectionObserver = Found(node.line)]
              ELSE d4
        d6 == IF IsArrayAtStatement(node) /\ ~d5.ArrayAt.found
              THEN [d5 EXCEPT !.ArrayAt = Found(node.line)]
              ELSE d5
    IN  IF IsNewOf(node, "WeakRef") /\ ~d6.WeakRef.found
        THEN [d6 EXCEPT !.WeakRef = Found(node.line)]
        ELSE d6

\* The callback of ast.program.body.forEach: the cascade of `if`s on one
\* top-level node, each reading the flags the earlier ones have set.
JSVisitNode(d, node) ==
    LET d1 == IF IsNewOf(node, "AbortController") /\ ~d.AbortController.found
              THEN [d EXCEPT !.AbortController = Found(node.line)]
              ELSE IF node.type = "VariableDeclaration"
                   THEN JSVisitDeclarators(d, node.declarations)
                   ELSE d
        d2 == IF IsFetchStatement(node) /\ ~d1.fetch.found
              THEN IF HasInitObject(node) /\ ~d1.fetchWithInit.found
                   THEN [d1 EXCEPT !.fetch = Found(node.line), !.fetchWithInit = Found(node.line)]
                   ELSE [d1 EXCEPT !.fetch = Found(node.line)]
              ELSE d1
        d3 == IF IsAllSettledStatement(node) /\ ~d2.PromiseAllSettled.found
              THEN [d2 EXCEPT !.PromiseAllSettled = Found(node.line)]
              ELSE d2
        d4 == IF IsAsyncNode(node) /\ ~d3.AsyncAwait.found
              THEN [d3 EXCEPT !.AsyncAwait = Found(node.line)]
              ELSE d3
        d5 == IF IsNewOf(node, "IntersectionObserver") /\ ~d4.IntersectionObserver.found
              THEN [d4 EXCEPT !.IntersectionObserver = Found(node.line)]
              ELSE d4
        d6 == IF IsArrayAtStatement(node) /\ ~d5.ArrayAt.found
              THEN [d5 EXCEPT !.ArrayAt = Found(node.line)]
              ELSE d5
    IN  IF IsNewOf(node, "WeakRef") /\ ~d6.WeakRef.found
        THEN [d6 EXCEPT !.WeakRef = Found(node.line)]
        ELSE d6

\* `if (detected.X.found) features.push({ name, key, line: detected.X.line })`
Push(flag, name, key) ==
    IF flag.found THEN <<[name |-> name, key |-> key, line |-> flag.line]>> ELSE <<>>

\* JSCollect with the name of the plain call pushed for the variant too.
JSCollect_SameName(d) ==
    Push(d.AbortController, S_AbortController, "aborting")
      \o Push(d.fetch, S_fetch, "fetch")
      \o Push(d.fetchWithInit, S_fetch, "fetch")
      \o Push(d.PromiseAllSettled, S_PromiseAllSettled, "promise-allsettled")
      \o Push(d.AsyncAwait, S_asyncAwait, "async-await")
      \o Push(d.IntersectionObserver, S_IntersectionObserver, "intersection-observer")
      \o Push(d.ArrayAt, S_ArrayAt, "array-at")
      \o Push(d.WeakRef, S_WeakRef, "weak-references")

\* The pushes after the walk, in the order of the source.
JSCollect(d) ==
    Push(d.AbortController, S_AbortController, "aborting")
      \o Push(d.fetch, S_fetch, "fetch")
      \o Push(d.fetchWithInit, S_fetchWithInit, "fetch")
      \o Push(d.PromiseAllSettled, S_PromiseAllSettled, "promise-allsettled")
      \o Push(d.AsyncAwait, S_asyncAwait, "async-await")
      \o Push(d.IntersectionObserver, S_IntersectionObserver, "intersection-observer")
      \o Push(d.ArrayAt, S_ArrayAt, "array-at")
      \o Push(d.WeakRef, S_WeakRef, "weak-references")

RECURSIVE JSWalk(_, _)
JSWalk(d, body) ==
    IF body = <<>> THEN d ELSE JSWalk(JSVisitNode(d, Head(body)), Tail(body))

detectJSFeatures(ast) == JSCollect(JSWalk(JSDetectedInit, ast))

(***************************************************************************)
(* The stylesheet postcss.parse returns: the style rules in document       *)
(* order, each with its selector (as postcss-selector-parser reads it: it  *)
(* throws on a malformed selector before any pseudo-class is walked) and   *)
(* its declarations.                                                       *)
(***************************************************************************)
\* Property names and values of the stylesheets the model scans.
P_scrollSnapType == <<"s", "c", "r", "o", "l", "l", "-", "s", "n", "a", "p", "-", "t", "y", "p", "e">>
P_gridTemplateRows == <<"g", "r", "i", "d", "-", "t", "e", "m", "p", "l", "a", "t", "e", "-", "r", "o", "w", "s">>
P_rowGap == <<"r", "o", "w", "-", "g", "a", "p">>
P_color == <<"c", "o", "l", "o", "r">>
V_1rem == <<"1", "r", "e", "m">>
V_1fr == <<"1", "f", "r">>
V_subgridNamed == <<"s", "u", "b", "g", "r", "i", "d", " ", "[", "a", "]">>

Pseudo(v) == [value |-> v, line |-> NoLine]

Declaration(prop, value) == [prop |-> prop, value |-> value, line |-> NoLine]

Rule(valid, pseudos, decls) ==
    [selector |-> [valid |-> valid, pseudos |-> pseudos], line |-> NoLine, decls |-> decls]

PseudoShapes == {Pseudo(":has"), Pseudo(":hover")}

DeclarationShapes ==
    {Declaration(S_gap, V_1rem), Declaration(S_aspectRatio, V_1rem),
     Declaration(S_containerType, V_1rem), Declaration(S_containerName, V_1rem),
     Declaration(S_container, V_1rem), Declaration(P_scrollSnapType, V_1rem),
     Declaration(S_gridTemplateColumns, V_subgridNamed), Declaration(S_gridTemplateColumns, V_1fr),
     Declaration(P_gridTemplateRows, V_subgridNamed), Declaration(P_rowGap, V_1rem),
     Declaration(P_color, V_1rem)}

RECURSIVE ListsOf(_, _)
ListsOf(S, n) ==
    IF n = 0 THEN {<<>>} ELSE {<<x>> \o rest : x \in S, rest \in ListsOf(S, n - 1)}

\* Selectors that do not parse: one without a pseudo-class (`a >> [`) and one
\* that holds :has all the same (`a:has(p) >> [`).
BadSelectorShapes == {<<>>, <<Pseudo(":has")>>}

\* A rule counts one per pseudo-class and declaration, and at least one; a rule
\* whose selector does not parse counts one for the selector.
RulesOfSize(n) ==
    UNION {{Rule(TRUE, ps, ds) : ps \in ListsOf(PseudoShapes, k), ds \in ListsOf(DeclarationShapes, n - k)} : k \in 0..n}
      \cup {Rule(FALSE, ps, ds) : ps \in BadSelectorShapes, ds \in ListsOf(DeclarationShapes, n - 1)}
      \cup (IF n = 1 THEN {Rule(TRUE, <<>>, <<>>)} ELSE {})

RECURSIVE SheetsOfSize(_)
SheetsOfSize(n) ==
    IF n = 0 THEN {<<>>}
    ELSE UNION {{<<r>> \o rest : r \in RulesOfSize(k), rest \in SheetsOfSize(n - k)} : k \in 1..n}

\* Lines of a stylesheet laid out one item per line: the rule's selector on
\* line `first`, each declaration on a line of its own, then the closing
\* brace.  A pseudo-class carries the line postcss-selector-parser gives it,
\* which counts from the start of the selector: the k-th on line k.
RECURSIVE LaidOut(_, _)
LaidOut(sheet, first) ==
    IF sheet = <<>> THEN <<>>
    ELSE LET r == Head(sheet)
             placed == [r EXCEPT !.line = first,
                                 !.selector.pseudos = [k \in 1..Len(@) |-> [@[k] EXCEPT !.line = k]],
                                 !.decls = [j \in 1..Len(@) |-> [@[j] EXCEPT !.line = first + j]]]
         IN  <<placed>> \o LaidOut(Tail(sheet), first + Len(r.decls) + 2)

Stylesheets == UNION {{LaidOut(sh, 1) : sh \in SheetsOfSize(n)} : n \in 0..MaxNodes}

(***************************************************************************)
(* detectCSSFeatures(css, verbose, file)                                   *)
(***************************************************************************)
CSSDetectedInit ==
    [has |-> NotFound, gap |-> NotFound, aspectRatio |-> NotFound,
     containerQueries |-> NotFound, scrollSnap |-> NotFound, subgrid |-> NotFound]

\* CSSVisitPseudo without the found-flag test: the last :has wins.
CSSVisitPseudo_LastWins(d, pseudo) ==
    IF pseudo.value = ":has"
    THEN [d EXCEPT !.has = Found(pseudo.line)]
    ELSE d

\* The callback of selectors.walkPseudos.
CSSVisitPseudo(d, pseudo) ==
    IF pseudo.value = ":has" /\ ~d.has.found
    THEN [d EXCEPT !.has = Found(pseudo.line)]
    ELSE d

RECURSIVE CSSVisitPseudos(_, _)
CSSVisitPseudos(d, pseudos) ==
    IF pseudos = <<>> THEN d
    ELSE CSSVisitPseudos(CSSVisitPseudo(d, Head(pseudos)), Tail(pseudos))

\* try { selectorParser(...).processSync(rule.selector) } catch { console.error }
CSSVisitSelector(d, selector) ==
    IF selector.valid THEN CSSVisitPseudos(d, selector.pseudos) ELSE d

IsContainerProp(prop) ==
    prop = S_containerType \/ prop = S_containerName \/ prop = S_container

\* CSSVisitDecl without the test of the value: every grid-template-columns
\* declaration counts as subgrid.
CSSVisitDecl_AnyColumns(d, decl) ==
    LET d1 == IF decl.prop = S_gap /\ ~d.gap.found
              THEN [d EXCEPT !.gap = Found(decl.line)] ELSE d
        d2 == IF decl.prop = S_aspectRatio /\ ~d1.aspectRatio.found
              THEN [d1 EXCEPT !.aspectRatio = Found(decl.line)] ELSE d1
        d3 == IF IsContainerProp(decl.prop) /\ ~d2.containerQueries.found
              THEN [d2 EXCEPT !.containerQueries = Found(decl.line)] ELSE d2
        d4 == IF startsWith(decl.prop, S_scrollSnap) /\ ~d3.scrollSnap.found
              THEN [d3 EXCEPT !.scrollSnap = Found(decl.line)] ELSE d3
    IN  IF decl.prop = S_gridTemplateColumns /\ ~d4.subgrid.found
        THEN [d4 EXCEPT !.subgrid = Found(decl.line)] ELSE d4

\* The callback of rule.walkDecls.
CSSVisitDecl(d, decl) ==
    LET d1 == IF decl.prop = S_gap /\ ~d.gap.found
              THEN [d EXCEPT !.gap = Found(decl.line)] ELSE d
        d2 == IF decl.prop = S_aspectRatio /\ ~d1.aspectRatio.found
              THEN [d1 EXCEPT !.aspectRatio = Found(decl.line)] ELSE d1
        d3 == IF IsContainerProp(decl.prop) /\ ~d2.containerQueries.found
              THEN [d2 EXCEPT !.containerQueries = Found(decl.line)] ELSE d2
        d4 == IF startsWith(decl.prop, S_scrollSnap) /\ ~d3.scrollSnap.found
              THEN [d3 EXCEPT !.scrollSnap = Found(decl.line)] ELSE d3
    IN  IF decl.prop = S_gridTemplateColumns /\ includes(decl.value, S_subgrid) /\ ~d4.subgrid.found
        THEN [d4 EXCEPT !.subgrid = Found(decl.line)] ELSE d4

RECURSIVE CSSVisitDecls(_, _)
CSSVisitDecls(d, decls) ==
    IF decls = <<>> THEN d
    ELSE CSSVisitDecls(CSSVisitDecl(d, Head(decls)), Tail(decls))

\* CSSVisitRule with the declarations walked inside the try of the selector:
\* a selector that does not parse takes the declarations of its rule with it.
CSSVisitRule_OneTry(d, rule) ==
    IF rule.selector.valid THEN CSSVisitDecls(CSSVisitPseudos(d, rule.selector.pseudos), rule.decls) ELSE d

\* The callback of root.walkRules: the selector, then the declarations.
CSSVisitRule(d, rule) == CSSVisitDecls(CSSVisitSelector(d, rule.selector), rule.decls)

\* CSSCollect with :has pushed under a key of its own name.
CSSCollect_HasKey(d) ==
    Push(d.has, S_has, "has")
      \o Push(d.gap, S_gap, "flexbox-gap")
      \o Push(d.aspectRatio, S_aspectRatio, "aspect-ratio")
      \o Push(d.containerQueries, S_containerQueries, "container-queries")
      \o Push(d.scrollSnap, S_scrollSnap, "scroll-snap")
      \o Push(d.subgrid, S_subgrid, "subgrid")

\* The pushes after the walk, in the order of the source.
CSSCollect(d) ==
    Push(d.has, S_has, "nesting")
      \o Push(d.gap, S_gap, "flexbox-gap")
      \o Push(d.aspectRatio, S_aspectRatio, "aspect-ratio")
      \o Push(d.containerQueries, S_containerQueries, "container-queries")
      \o Push(d.scrollSnap, S_scrollSnap, "scroll-snap")
      \o Push(d.subgrid, S_subgrid, "subgrid")

RECURSIVE CSSWalk(_, _)
CSSWalk(d, sheet) ==
    IF sheet = <<>> THEN d ELSE CSSWalk(CSSVisitRule(d, Head(sheet)), Tail(sheet))

\* The value returned for a stylesheet postcss.parse accepts (for one it
\* rejects the function throws, see ProcessFile).
detectCSSFeatures(sheet) == CSSCollect(CSSWalk(CSSDetectedInit, sheet))

(***************************************************************************)
(* The feature registry (web-features): what                               *)
(* `webFeatures.features[key]?.status?.baseline` evaluates to for a key.   *)
(***************************************************************************)
FeatureKeys ==
    {"aborting", "fetch", "promise-allsettled", "async-await", "intersection-observer",
     "array-at", "weak-references", "nesting", "flexbox-gap", "aspect-ratio",
     "container-queries", "scroll-snap", "subgrid"}

\* 'high', 'low', false, or undefined when the key has no entry.
Tiers == {"high", "low", "false", Undefined}

(***************************************************************************)
(* The classifier: the body of filtered.forEach in program.action.         *)
(***************************************************************************)
\* classify without the two overrides: the registry decides every key.
classify_NoOverride(feat, reg) ==
    IF reg[feat.key] = "high" THEN S_baseline ELSE S_nonBaseline

\* classify taking the 'low' tier (newly available) for baseline as well.
classify_LowCounts(feat, reg) ==
    IF feat.key = "nesting" \/ feat.key = "subgrid"
    THEN S_baseline
    ELSE IF reg[feat.key] \in {"high", "low"} THEN S_baseline ELSE S_nonBaseline

classify(feat, reg) ==
    IF feat.key = "nesting" \/ feat.key = "subgrid"
    THEN S_baseline
    ELSE IF reg[feat.key] = "high" THEN S_baseline ELSE S_nonBaseline

\* results.push({ name: feat.name, status, file, line: feat.line || 1 })
ClassifiedFeature(feat, file, reg) ==
    [name |-> feat.name, status |-> classify(feat, reg), file |-> file, line |-> LineOr1(feat.line)]

\* ClassifyAll putting each record in front of the earlier ones (unshift).
RECURSIVE ClassifyAll_Unshift(_, _, _)
ClassifyAll_Unshift(feats, file, reg) ==
    IF feats = <<>> THEN <<>>
    ELSE ClassifyAll_Unshift(Tail(feats), file, reg) \o <<ClassifiedFeature(Head(feats), file, reg)>>

\* filtered.forEach(feat => results.push(...))
RECURSIVE ClassifyAll(_, _, _)
ClassifyAll(feats, file, reg) ==
    IF feats = <<>> THEN <<>>
    ELSE <<ClassifiedFeature(Head(feats), file, reg)>> \o ClassifyAll(Tail(feats), file, reg)

(***************************************************************************)
(* The directory the CLI scans.  A file is its path relative to the root,  *)
(* whether fs.readFileSync succeeds, whether the parser of its dialect     *)
(* accepts the text, and the tree the parser returns.                      *)
(***************************************************************************)
F_a_js == <<"a", ".", "j", "s">>
F_b_css == <<"b", ".", "c", "s", "s">>
F_c_js == <<"c", ".", "j", "s">>
F_d_js == <<"d", ".", "j", "s">>
F_e_css == <<"e", ".", "c", "s", "s">>
F_f_js == <<"l", "i", "b", "/", "f", ".", "j", "s">>
F_g_css == <<"g", "\"", ",", "x", ".", "c", "s", "s">>
F_h_JS == <<"h", ".", "J", "S">>
O_FETCH == <<"F", "E", "T", "C", "H">>

File(path, readable, parses, tree) ==
    [path |-> path, readable |-> readable, parses |-> parses, tree |-> tree]

\* a.js:      fetch(u, {});
\*            const c = new AbortController();
\* b.css:     div:has(p) { gap: 1rem; }
\* c.js:      cannot be read
\* d.js:      unrecoverable syntax error
\* e.css:     unclosed block
\* lib/f.js:  foo();
\* g",x.css:  .g { grid-template-columns: subgrid [a]; container-type: 1rem; }
\*            in a tree whose nodes carry no position, which is what the `?.`
\*            and `|| 1` of the matchers provide for
\* h.JS:      fetch(u);  under a name a case-insensitive match of the glob
\*            pattern returns and endsWith('.js') does not accept
FileCatalog ==
    {File(F_a_js, TRUE, TRUE,
          Numbered(<<ExpressionStatement(CallExpression(Identifier("fetch"), <<"StringLiteral", "ObjectExpression">>)),
                     VariableDeclaration(<<VariableDeclarator(NewExpression("AbortController"))>>)>>)),
     File(F_b_css, TRUE, TRUE,
          LaidOut(<<Rule(TRUE, <<Pseudo(":has")>>, <<Declaration(S_gap, V_1rem)>>)>>, 1)),
     File(F_c_js, FALSE, TRUE, <<>>),
     File(F_d_js, TRUE, FALSE, <<>>),
     File(F_e_css, TRUE, FALSE, <<>>),
     File(F_f_js, TRUE, TRUE, Numbered(<<ExpressionStatement(CallExpression(Identifier("foo"), <<>>))>>)),
     File(F_g_css, TRUE, TRUE,
          <<Rule(TRUE, <<>>, <<Declaration(S_gridTemplateColumns, V_subgridNamed),
                               Declaration(S_containerType, V_1rem)>>)>>),
     File(F_h_JS, TRUE, TRUE,
          Numbered(<<ExpressionStatement(CallExpression(Identifier("fetch"), <<"StringLiteral">>))>>))}

\* What glob.sync can return: the paths of a directory, each once.
RECURSIVE Listings(_)
Listings(n) ==
    IF n = 0 THEN {<<>>}
    ELSE {<<>>} \cup {<<f>> \o rest : f \in FileCatalog, rest \in Listings(n - 1)}

Distinct(fs) == \A i, j \in 1..Len(fs) : fs[i].path = fs[j].path => i = j

GlobResults == {fs \in Listings(MaxFiles) : Distinct(fs)}

(***************************************************************************)
(* Command-line options.  An option that is not given is undefined, which  *)
(* the code only tests for truth: the empty string stands for it.          *)
(***************************************************************************)
NoFilter == <<>>

FilterValues == {NoFilter, S_js, S_css, O_FETCH}

Options ==
    {[filter |-> f, output |-> o, reportFormat |-> r] :
        f \in FilterValues, o \in BOOLEAN, r \in {"json", "csv"}}

\* The two registries the scans run against differ on every key.
RegistryA ==
    [k \in FeatureKeys |->
        IF k \in {"aborting", "nesting", "flexbox-gap", "array-at", "async-await"} THEN "high"
        ELSE IF k \in {"fetch", "subgrid", "scroll-snap"} THEN "low"
        ELSE IF k \in {"container-queries", "weak-references"} THEN "false"
        ELSE Undefined]

RegistryB ==
    [k \in FeatureKeys |->
        IF k \in {"aborting", "nesting", "flexbox-gap", "array-at", "async-await"} THEN "low"
        ELSE IF k \in {"fetch", "subgrid", "scroll-snap"} THEN "high"
        ELSE IF k \in {"container-queries", "weak-references"} THEN Undefined
        ELSE "high"]

Registries == {RegistryA, RegistryB}

(***************************************************************************)
(* The callback of files.forEach in program.action, as what it does with   *)
(* one file: whether it reads it, what it logs, what it pushes.            *)
(***************************************************************************)
\* SkippedByFileType with the css test left out.
SkippedByFileType_JsOnly(path, opts) ==
    opts.filter = S_js /\ ~endsWith(path, S_dotJs)

\* `options.filter === 'js' && !file.endsWith('.js')` and the same for css.
SkippedByFileType(path, opts) ==
    \/ opts.filter = S_js /\ ~endsWith(path, S_dotJs)
    \/ opts.filter = S_css /\ ~endsWith(path, S_dotCss)

\* FilterByName keeping every name that contains the filter value.
FilterByName_Substring(feats, opts) ==
    IF opts.filter # NoFilter /\ opts.filter \notin {S_js, S_css}
    THEN SelectSeq(feats, LAMBDA feat : includes(toLowerCase(feat.name), toLowerCase(opts.filter)))
    ELSE feats

\* options.filter && !['js', 'css'].includes(options.filter)
\*   ? detected.filter(feat => feat.name.toLowerCase() === options.filter.toLowerCase())
\*   : detected
FilterByName(feats, opts) ==
    IF opts.filter # NoFilter /\ opts.filter \notin {S_js, S_css}
    THEN SelectSeq(feats, LAMBDA feat : toLowerCase(feat.name) = toLowerCase(opts.filter))
    ELSE feats

\* ProcessFile with the parser calls outside any try: a syntax error leaves
\* the callback.
ProcessFile_SyntaxEscapes(file, opts, reg) ==
    IF SkippedByFileType(file.path, opts)
    THEN [read |-> FALSE, error |-> "none", pushed |-> <<>>, escaped |-> FALSE]
    ELSE IF ~file.readable
    THEN [read |-> TRUE, error |-> "read", pushed |-> <<>>, escaped |-> FALSE]
    ELSE IF ~file.parses
    THEN [read |-> TRUE, error |-> "syntax", pushed |-> <<>>, escaped |-> TRUE]
    ELSE IF ~endsWith(file.path, S_dotJs) /\ ~endsWith(file.path, S_dotCss)
    THEN [read |-> TRUE, error |-> "unsupported", pushed |-> <<>>, escaped |-> FALSE]
    ELSE [read |-> TRUE, error |-> "none", escaped |-> FALSE,
          pushed |-> ClassifyAll(FilterByName(IF endsWith(file.path, S_dotJs)
                                              THEN detectJSFeatures(file.tree)
                                              ELSE detectCSSFeatures(file.tree), opts),
                                 file.path, reg)]

\* ProcessFile with readFileSync outside any try: a read error leaves the
\* callback.
ProcessFile_ReadEscapes(file, opts, reg) ==
    IF SkippedByFileType(file.path, opts)
    THEN [read |-> FALSE, error |-> "none", pushed |-> <<>>, escaped |-> FALSE]
    ELSE IF ~file.readable
    THEN [read |-> TRUE, error |-> "read", pushed |-> <<>>, escaped |-> TRUE]
    ELSE IF ~file.parses
    THEN [read |-> TRUE, error |-> "syntax", pushed |-> <<>>, escaped |-> FALSE]
    ELSE IF ~endsWith(file.path, S_dotJs) /\ ~endsWith(file.path, S_dotCss)
    THEN [read |-> TRUE, error |-> "unsupported", pushed |-> <<>>, escaped |-> FALSE]
    ELSE [read |-> TRUE, error |-> "none", escaped |-> FALSE,
          pushed |-> ClassifyAll(FilterByName(IF endsWith(file.path, S_dotJs)
                                              THEN detectJSFeatures(file.tree)
                                              ELSE detectCSSFeatures(file.tree), opts),
                                 file.path, reg)]

\* `escaped`: an exception leaves the callback.  Every throw site of the
\* callback (readFileSync, the two parsers) sits in a try whose catch logs and
\* returns, so the callback lets none out.
FileResult(read, error, pushed) ==
    [read |-> read, error |-> error, pushed |-> pushed, escaped |-> FALSE]

\* ProcessFile without the diagnostic of the last else: a file of neither
\* type is read and dropped without a word.
ProcessFile_QuietElse(file, opts, reg) ==
    IF SkippedByFileType(file.path, opts) THEN FileResult(FALSE, "none", <<>>)
    ELSE IF ~file.readable THEN FileResult(TRUE, "read", <<>>)
    ELSE IF endsWith(file.path, S_dotJs)
         THEN IF ~file.parses THEN FileResult(TRUE, "syntax", <<>>)
              ELSE FileResult(TRUE, "none",
                              ClassifyAll(FilterByName(detectJSFeatures(file.tree), opts), file.path, reg))
    ELSE IF endsWith(file.path, S_dotCss)
         THEN IF ~file.parses THEN FileResult(TRUE, "syntax", <<>>)
              ELSE FileResult(TRUE, "none",
                              ClassifyAll(FilterByName(detectCSSFeatures(file.tree), opts), file.path, reg))
    ELSE FileResult(TRUE, "none", <<>>)

ProcessFile(file, opts, reg) ==
    IF SkippedByFileType(file.path, opts) THEN FileResult(FALSE, "none", <<>>)
    ELSE IF ~file.readable THEN FileResult(TRUE, "read", <<>>)
    ELSE IF endsWith(file.path, S_dotJs)
         THEN IF ~file.parses THEN FileResult(TRUE, "syntax", <<>>)
              ELSE FileResult(TRUE, "none",
                              ClassifyAll(FilterByName(detectJSFeatures(file.tree), opts), file.path, reg))
    ELSE IF endsWith(file.path, S_dotCss)
         THEN IF ~file.parses THEN FileResult(TRUE, "syntax", <<>>)
              ELSE FileResult(TRUE, "none",
                              ClassifyAll(FilterByName(detectCSSFeatures(file.tree), opts), file.path, reg))
    ELSE FileResult(TRUE, "unsupported", <<>>)

(***************************************************************************)
(* The report and its two serialisations.                                  *)
(***************************************************************************)
\* CountStatus counting every record, whatever its status.
CountStatus_Total(records, s) == Len(records)

\* records.filter(r => r.status === s).length
CountStatus(records, s) == Len(SelectSeq(records, LAMBDA r : r.status = s))

\* { summary: { baseline, non_baseline }, features: records }
Report(records) ==
    [summary |-> [baseline |-> CountStatus(records, S_baseline),
                  non_baseline |-> CountStatus(records, S_nonBaseline)],
     features |-> records]

NoReport == [summary |-> [baseline |-> 0, non_baseline |-> 0], features |-> <<>>]

\* json2csv's Parser with its default options: a header row, every string
\* between double quotes with each double quote inside it doubled, numbers
\* in decimal, fields joined by commas and rows by line feeds.
DoubleQuote == "\""

\* The index of the first element of str at or after `from` that is in `chars`,
\* Len(str) + 1 when there is none.
FirstOf(str, from, chars) ==
    IF \E j \in from..Len(str) : str[j] \in chars
    THEN CHOOSE j \in from..Len(str) :
             /\ str[j] \in chars
             /\ \A k \in from..(j - 1) : str[k] \notin chars
    ELSE Len(str) + 1

\* str.replace(/"/g, '""')
RECURSIVE EscapeQuotes(_)
EscapeQuotes(str) ==
    LET j == FirstOf(str, 1, {DoubleQuote})
    IN  IF j > Len(str) THEN str
        ELSE SubSeq(str, 1, j) \o <<DoubleQuote>> \o EscapeQuotes(SubSeq(str, j + 1, Len(str)))

\* CsvString without the doubling of the quotes inside the string.
CsvString_Unescaped(str) == <<DoubleQuote>> \o str \o <<DoubleQuote>>

CsvString(str) == <<DoubleQuote>> \o EscapeQuotes(str) \o <<DoubleQuote>>

DigitChar(d) ==
    CASE d = 0 -> "0" [] d = 1 -> "1" [] d = 2 -> "2" [] d = 3 -> "3" [] d = 4 -> "4"
      [] d = 5 -> "5" [] d = 6 -> "6" [] d = 7 -> "7" [] d = 8 -> "8" [] d = 9 -> "9"

RECURSIVE CsvNumber(_)
CsvNumber(n) ==
    IF n < 10 THEN <<DigitChar(n)>> ELSE CsvNumber(n \div 10) \o <<DigitChar(n % 10)>>

\* fields = ['name', 'status', 'file', 'line']
CsvHeader ==
    CsvString(S_name) \o <<",">> \o CsvString(S_status) \o <<",">>
      \o CsvString(S_file) \o <<",">> \o CsvString(S_line)

CsvRow(r) ==
    CsvString(r.name) \o <<",">> \o CsvString(r.status) \o <<",">>
      \o CsvString(r.file) \o <<",">> \o CsvNumber(r.line)

RECURSIVE CsvRows(_)
CsvRows(records) ==
    IF records = <<>> THEN <<>>
    ELSE <<"\n">> \o CsvRow(Head(records)) \o CsvRows(Tail(records))

\* csvParser.parse(records)
toCSV(records) == CsvHeader \o CsvRows(records)

\* A file handed to the file system or to the browser.
NoDocument == [kind |-> "none", text |-> <<>>, data |-> NoReport]

CsvDocument(records) == [kind |-> "csv", text |-> toCSV(records), data |-> NoReport]

\* JSON.stringify(output, null, 2), kept as the value it denotes.
JsonDocument(records) == [kind |-> "json", text |-> <<>>, data |-> Report(records)]

(***************************************************************************)
(* The viewer's filter effect.                                             *)
(***************************************************************************)
\* MatchesFeatureFilter comparing the name and the filter as they are typed.
MatchesFeatureFilter_CaseSensitive(feat, ff) == includes(feat.name, ff)

\* feat.name.toLowerCase().includes(featureFilter.toLowerCase())
MatchesFeatureFilter(feat, ff) == includes(toLowerCase(feat.name), toLowerCase(ff))

MatchesFileType(feat, ft) ==
    \/ ft = S_js /\ endsWith(feat.file, S_dotJs)
    \/ ft = S_css /\ endsWith(feat.file, S_dotCss)

ViewFilter(feats, ff, ft) ==
    LET byName == IF ff # <<>> THEN SelectSeq(feats, LAMBDA feat : MatchesFeatureFilter(feat, ff)) ELSE feats
    IN  IF ft # S_all THEN SelectSeq(byName, LAMBDA feat : MatchesFileType(feat, ft)) ELSE byName

(***************************************************************************)
(* State.                                                                  *)
(***************************************************************************)
VARIABLES
    \* one run of a matcher
    source,             \* the parsed file: its dialect and its tree
    cursor,             \* top-level nodes (statements, rules) visited so far
    detected,           \* the matcher's found-flags
    features,           \* the sequence the matcher returns
    mpc,                \* "off", "walk", "returned"
    \* one classification
    feat,               \* the occurrence handed to the classifier
    classified,         \* the records pushed for it
    \* one run of the CLI
    files,              \* what glob.sync returns, in traversal order
    options,            \* the command line
    registry,           \* web-features
    pc,                 \* "off", "glob", "scan", "done"
    fileIndex,          \* files the forEach has called back for
    results,            \* the accumulator of program.action
    reads,              \* the paths given to fs.readFileSync, in order
    errors,             \* what went to console.error, in order
    outcome,            \* what the run ended with
    printed,            \* the report printed to the console
    written,            \* what fs.writeFileSync stored at options.output
    \* the viewer
    view,               \* "off", "loading", "loaded", "error"
    report,             \* useState<Report | null>
    featureFilter,
    fileTypeFilter,
    filteredFeatures,
    effectPending,      \* the filter effect is scheduled and has not run
    exported            \* the file the last click handed to the browser

matchVars == <<source, cursor, detected, features, mpc>>
classifyVars == <<feat, classified>>
cliVars == <<files, options, pc, fileIndex, results, reads, errors, outcome, printed, written>>
viewVars == <<view, report, featureFilter, fileTypeFilter, filteredFeatures, effectPending, exported>>
vars == <<matchVars, classifyVars, registry, cliVars, viewVars>>

NoRegistry == [k \in FeatureKeys |-> Undefined]

MatchOff ==
    /\ source = [dialect |-> "none", tree |-> <<>>]
    /\ cursor = 0
    /\ detected = JSDetectedInit
    /\ features = <<>>
    /\ mpc = "off"

ClassifyOff ==
    /\ feat = [name |-> <<>>, key |-> Undefined, line |-> NoLine]
    /\ classified = <<>>

CliOff ==
    /\ files = <<>>
    /\ options = [filter |-> NoFilter, output |-> FALSE, reportFormat |-> "json"]
    /\ pc = "off"
    /\ fileIndex = 0
    /\ results = <<>>
    /\ reads = <<>>
    /\ errors = <<>>
    /\ outcome = "none"
    /\ printed = NoReport
    /\ written = NoDocument

ViewOff ==
    /\ view = "off"
    /\ report = NoReport
    /\ featureFilter = <<>>
    /\ fileTypeFilter = S_all
    /\ filteredFeatures = <<>>
    /\ effectPending = FALSE
    /\ exported = NoDocument

(***************************************************************************)
(* A matcher run, one top-level node per step.                             *)
(***************************************************************************)
MatchInit ==
    /\ source \in {[dialect |-> "js", tree |-> p] : p \in JSPrograms}
                    \cup {[dialect |-> "css", tree |-> sh] : sh \in Stylesheets}
    /\ cursor = 0
    /\ detected = IF source.dialect = "js" THEN JSDetectedInit ELSE CSSDetectedInit
    /\ features = <<>>
    /\ mpc = "walk"
    /\ ClassifyOff /\ registry = NoRegistry /\ CliOff /\ ViewOff

JSVisit ==
    /\ mpc = "walk" /\ source.dialect = "js" /\ cursor < Len(source.tree)
    /\ detected' = JSVisitNode(detected, source.tree[cursor + 1])
    /\ cursor' = cursor + 1
    /\ UNCHANGED <<source, features, mpc, classifyVars, registry, cliVars, viewVars>>

JSReturn ==
    /\ mpc = "walk" /\ source.dialect = "js" /\ cursor = Len(source.tree)
    /\ features' = JSCollect(detected)
    /\ mpc' = "returned"
    /\ UNCHANGED <<source, cursor, detected, classifyVars, registry, cliVars, viewVars>>

CSSVisit ==
    /\ mpc = "walk" /\ source.dialect = "css" /\ cursor < Len(source.tree)
    /\ detected' = CSSVisitRule(detected, source.tree[cursor + 1])
    /\ cursor' = cursor + 1
    /\ UNCHANGED <<source, features, mpc, classifyVars, registry, cliVars, viewVars>>

CSSReturn ==
    /\ mpc = "walk" /\ source.dialect = "css" /\ cursor = Len(source.tree)
    /\ features' = CSSCollect(detected)
    /\ mpc' = "returned"
    /\ UNCHANGED <<source, cursor, detected, classifyVars, registry, cliVars, viewVars>>

MatchNext == JSVisit \/ JSReturn \/ CSSVisit \/ CSSReturn

SpecMatch == MatchInit /\ [][MatchNext]_vars

(***************************************************************************)
(* One classification: an occurrence a matcher can return, against a       *)
(* registry that holds any tier for its key and any tier for the others.   *)
(***************************************************************************)
\* The name and key of every push of the two matchers.
RuleTable ==
    {<<S_AbortController, "aborting">>, <<S_fetch, "fetch">>, <<S_fetchWithInit, "fetch">>,
     <<S_PromiseAllSettled, "promise-allsettled">>, <<S_asyncAwait, "async-await">>,
     <<S_IntersectionObserver, "intersection-observer">>, <<S_ArrayAt, "array-at">>,
     <<S_WeakRef, "weak-references">>, <<S_has, "nesting">>, <<S_gap, "flexbox-gap">>,
     <<S_aspectRatio, "aspect-ratio">>, <<S_containerQueries, "container-queries">>,
     <<S_scrollSnap, "scroll-snap">>, <<S_subgrid, "subgrid">>}

Occurrences == {[name |-> r[1], key |-> r[2], line |-> l] : r \in RuleTable, l \in 1..MaxNodes}

ClassifyInit ==
    /\ feat \in Occurrences
    /\ registry \in {[k \in FeatureKeys |-> IF k = feat.key THEN own ELSE other] : own, other \in Tiers}
    /\ classified = <<>>
    /\ MatchOff /\ CliOff /\ ViewOff

Classify ==
    /\ feat.key # Undefined /\ classified = <<>>
    /\ classified' = ClassifyAll(<<feat>>, F_a_js, registry)
    /\ UNCHANGED <<feat, registry, matchVars, cliVars, viewVars>>

SpecClassify == ClassifyInit /\ [][Classify]_vars

(***************************************************************************)
(* One run of the CLI: program.action.                                     *)
(***************************************************************************)
CliInit ==
    /\ files \in GlobResults
    /\ options \in Options
    /\ registry \in Registries
    /\ pc = "glob"
    /\ fileIndex = 0
    /\ results = <<>>
    /\ reads = <<>>
    /\ errors = <<>>
    /\ outcome = "none"
    /\ printed = NoReport
    /\ written = NoDocument
    /\ MatchOff /\ ClassifyOff /\ ViewOff

\* const files = glob.sync(...); if (files.length === 0) { console.log(...); return; }
Glob ==
    /\ pc = "glob"
    /\ IF Len(files) = 0
       THEN pc' = "done" /\ outcome' = "no files found"
       ELSE pc' = "scan" /\ outcome' = outcome
    /\ UNCHANGED <<files, options, fileIndex, results, reads, errors, printed, written>>
    /\ UNCHANGED <<matchVars, classifyVars, registry, viewVars>>

\* ScanFile with the records of the file put in front of the accumulator.
ScanFile_Unshift ==
    /\ pc = "scan" /\ fileIndex < Len(files)
    /\ \E file \in {files[fileIndex + 1]} :
         \E r \in {ProcessFile(file, options, registry)} :
           /\ reads' = IF r.read THEN Append(reads, file.path) ELSE reads
           /\ errors' = IF r.error # "none" THEN Append(errors, [kind |-> r.error, file |-> file.path]) ELSE errors
           /\ results' = r.pushed \o results
           /\ fileIndex' = fileIndex + 1
           /\ IF r.escaped
              THEN pc' = "done" /\ outcome' = "error scanning directory"
              ELSE pc' = pc /\ outcome' = outcome
    /\ UNCHANGED <<files, options, printed, written>>
    /\ UNCHANGED <<matchVars, classifyVars, registry, viewVars>>

\* One call of the forEach callback.  An exception that left it would end the
\* forEach and reach the catch of the outer try, which logs it and ends the run.
ScanFile ==
    /\ pc = "scan" /\ fileIndex < Len(files)
    /\ \E file \in {files[fileIndex + 1]} :
         \E r \in {ProcessFile(file, options, registry)} :
           /\ reads' = IF r.read THEN Append(reads, file.path) ELSE reads
           /\ errors' = IF r.error # "none" THEN Append(errors, [kind |-> r.error, file |-> file.path]) ELSE errors
           /\ results' = results \o r.pushed
           /\ fileIndex' = fileIndex + 1
           /\ IF r.escaped
              THEN pc' = "done" /\ outcome' = "error scanning directory"
              ELSE pc' = pc /\ outcome' = outcome
    /\ UNCHANGED <<files, options, printed, written>>
    /\ UNCHANGED <<matchVars, classifyVars, registry, viewVars>>

\* HasResults true of the empty accumulator as well.
HasResults_OrEmpty(records) == Len(records) >= 0

\* if (results.length > 0)
HasResults(records) == Len(records) > 0

\* What the run stores at options.output once the report is printed;
\* `writeFails`: fs.writeFileSync throws, which is caught and logged.
WriteReport(records, opts, writeFails) ==
    IF ~opts.output \/ writeFails THEN NoDocument
    ELSE IF opts.reportFormat = "csv" THEN CsvDocument(records)
    ELSE JsonDocument(records)

\* The code after the forEach: `if (results.length > 0) { ... } else { ... }`.
PrintReport ==
    /\ pc = "scan" /\ fileIndex = Len(files)
    /\ IF HasResults(results)
       THEN \E writeFails \in BOOLEAN :
              /\ options.output \/ ~writeFails
              /\ printed' = Report(results)
              /\ outcome' = "report"
              /\ written' = WriteReport(results, options, writeFails)
              /\ errors' = IF writeFails THEN Append(errors, [kind |-> "write", file |-> <<>>]) ELSE errors
       ELSE /\ outcome' = "no features detected"
            /\ UNCHANGED <<printed, written, errors>>
    /\ pc' = "done"
    /\ UNCHANGED <<files, options, fileIndex, results, reads>>
    /\ UNCHANGED <<matchVars, classifyVars, registry, viewVars>>

CliNext == Glob \/ ScanFile \/ PrintReport

(***************************************************************************)
(* The viewer: ReportTable.  It is opened on what the run left at the      *)
(* output path, served as /report.json.                                    *)
(***************************************************************************)
FeatureFilterValues == {<<>>, O_FETCH, S_has}

FileTypeValues == {S_all, S_js, S_css}

\* The component mounts and its first effect issues the fetch.
Mount ==
    /\ view = "off" /\ pc = "done"
    /\ view' = "loading"
    /\ UNCHANGED <<report, featureFilter, fileTypeFilter, filteredFeatures, effectPending, exported>>
    /\ UNCHANGED <<matchVars, classifyVars, registry, cliVars>>

\* .then(res => res.json()).then(data => { setReport(data); setFilteredFeatures(data.features) })
FetchResolve ==
    /\ view = "loading"
    /\ written.kind = "json"
    /\ view' = "loaded"
    /\ report' = written.data
    /\ filteredFeatures' = written.data.features
    /\ effectPending' = TRUE
    /\ UNCHANGED <<featureFilter, fileTypeFilter, exported>>
    /\ UNCHANGED <<matchVars, classifyVars, registry, cliVars>>

\* FetchReject with the error set whenever the component is mounted, also
\* after the report has arrived.
FetchReject_AfterLoad ==
    /\ view \in {"loading", "loaded"}
    /\ view' = "error"
    /\ UNCHANGED <<report, featureFilter, fileTypeFilter, filteredFeatures, effectPending, exported>>
    /\ UNCHANGED <<matchVars, classifyVars, registry, cliVars>>

\* .catch(err => setError(...)): the request fails, or the body is not JSON.
FetchReject ==
    /\ view = "loading"
    /\ view' = "error"
    /\ UNCHANGED <<report, featureFilter, fileTypeFilter, filteredFeatures, effectPending, exported>>
    /\ UNCHANGED <<matchVars, classifyVars, registry, cliVars>>

\* The user types in the feature input; React schedules the filter effect.
\* Handlers run on a rendered view, and React runs an effect before the next
\* event is handled, so no handler runs while the effect is pending.
SetFeatureFilter ==
    /\ view = "loaded" /\ ~effectPending
    /\ \E v \in FeatureFilterValues \ {featureFilter} : featureFilter' = v
    /\ effectPending' = TRUE
    /\ exported' = NoDocument
    /\ UNCHANGED <<view, report, fileTypeFilter, filteredFeatures>>
    /\ UNCHANGED <<matchVars, classifyVars, registry, cliVars>>

SetFileTypeFilter ==
    /\ view = "loaded" /\ ~effectPending
    /\ \E v \in FileTypeValues \ {fileTypeFilter} : fileTypeFilter' = v
    /\ effectPending' = TRUE
    /\ exported' = NoDocument
    /\ UNCHANGED <<view, report, featureFilter, filteredFeatures>>
    /\ UNCHANGED <<matchVars, classifyVars, registry, cliVars>>

\* FilterEffect narrowing the list it filtered last instead of report.features.
FilterEffect_FromFiltered ==
    /\ view = "loaded" /\ effectPending
    /\ filteredFeatures' = ViewFilter(filteredFeatures, featureFilter, fileTypeFilter)
    /\ effectPending' = FALSE
    /\ UNCHANGED <<view, report, featureFilter, fileTypeFilter, exported>>
    /\ UNCHANGED <<matchVars, classifyVars, registry, cliVars>>

\* useEffect(() => { ...; setFilteredFeatures(filtered) }, [report, featureFilter, fileTypeFilter])
FilterEffect ==
    /\ view = "loaded" /\ effectPending
    /\ filteredFeatures' = ViewFilter(report.features, featureFilter, fileTypeFilter)
    /\ effectPending' = FALSE
    /\ UNCHANGED <<view, report, featureFilter, fileTypeFilter, exported>>
    /\ UNCHANGED <<matchVars, classifyVars, registry, cliVars>>

downloadCSV ==
    /\ view = "loaded" /\ ~effectPending
    /\ exported' = CsvDocument(filteredFeatures)
    /\ UNCHANGED <<view, report, featureFilter, fileTypeFilter, filteredFeatures, effectPending>>
    /\ UNCHANGED <<matchVars, classifyVars, registry, cliVars>>

downloadJSON ==
    /\ view = "loaded" /\ ~effectPending
    /\ exported' = JsonDocument(filteredFeatures)
    /\ UNCHANGED <<view, report, featureFilter, fileTypeFilter, filteredFeatures, effectPending>>
    /\ UNCHANGED <<matchVars, classifyVars, registry, cliVars>>

\* The summary line and the two bars of the chart, computed from the
\* filtered list at every render.
ViewSummary == Report(filteredFeatures).summary

\* GroupStep starting a fresh list at every record: the earlier records of the
\* file are lost.
GroupStep_Overwrite(acc, feature) ==
    IF \E k \in 1..Len(acc) : acc[k].file = feature.file
    THEN [k \in 1..Len(acc) |->
             IF acc[k].file = feature.file THEN [acc[k] EXCEPT !.features = <<feature>>] ELSE acc[k]]
    ELSE Append(acc, [file |-> feature.file, features |-> <<feature>>])

\* The object the reduce builds, as its entries in the order of its keys: a
\* path is no integer index, so the keys are in insertion order.
\* acc[feature.file] = acc[feature.file] || []; acc[feature.file].push(feature); return acc
GroupStep(acc, feature) ==
    IF \E k \in 1..Len(acc) : acc[k].file = feature.file
    THEN [k \in 1..Len(acc) |->
             IF acc[k].file = feature.file THEN [acc[k] EXCEPT !.features = Append(@, feature)] ELSE acc[k]]
    ELSE Append(acc, [file |-> feature.file, features |-> <<feature>>])

\* list.reduce(GroupStep, acc)
RECURSIVE Reduce(_, _)
Reduce(acc, list) ==
    IF list = <<>> THEN acc ELSE Reduce(GroupStep(acc, Head(list)), Tail(list))

\* const featuresByFile = filteredFeatures.reduce(..., {}), at every render.
featuresByFile == Reduce(<<>>, filteredFeatures)

ViewNext ==
    \/ Mount \/ FetchResolve \/ FetchReject
    \/ SetFeatureFilter \/ SetFileTypeFilter \/ FilterEffect
    \/ downloadCSV \/ downloadJSON

Init == CliInit

Next == CliNext \/ ViewNext

Spec == Init /\ [][Next]_vars

\* The run alone.  Nothing suspends program.action: it runs to its end.
SpecCli == CliInit /\ [][CliNext]_vars /\ WF_vars(CliNext)

(***************************************************************************)
(* Properties of the matchers.                                             *)
(***************************************************************************)
\* The lines of the nodes of `tree` that have the shape flag `f` stands for
\* (the condition of its `if` without the found-flag), in traversal order.
JSStatementMatches(f, node) ==
    CASE f = "AbortController" -> IsNewOf(node, "AbortController")
      [] f = "fetch" -> IsFetchStatement(node)
      [] f = "fetchWithInit" -> IsFetchStatement(node) /\ HasInitObject(node)
      [] f = "PromiseAllSettled" -> IsAllSettledStatement(node)
      [] f = "AsyncAwait" -> IsAsyncNode(node)
      [] f = "IntersectionObserver" -> IsNewOf(node, "IntersectionObserver")
      [] f = "ArrayAt" -> IsArrayAtStatement(node)
      [] f = "WeakRef" -> IsNewOf(node, "WeakRef")

JSDeclaratorMatches(f, decl) ==
    CASE f = "AbortController" -> IsNewOf(decl.init, "AbortController")
      [] f = "WeakRef" -> IsNewOf(decl.init, "WeakRef")
      [] OTHER -> FALSE

LinesWhere(nodes, Test(_)) ==
    LET hits == SelectSeq(nodes, Test) IN [i \in 1..Len(hits) |-> hits[i].line]

RECURSIVE JSMatchLines(_, _)
JSMatchLines(f, tree) ==
    IF tree = <<>> THEN <<>>
    ELSE LET node == Head(tree)
         IN  (IF JSStatementMatches(f, node) THEN <<node.line>> ELSE <<>>)
               \o (IF node.type = "VariableDeclaration"
                   THEN LinesWhere(node.declarations, LAMBDA decl : JSDeclaratorMatches(f, decl))
                   ELSE <<>>)
               \o JSMatchLines(f, Tail(tree))

CSSDeclMatches(f, decl) ==
    CASE f = "gap" -> decl.prop = S_gap
      [] f = "aspectRatio" -> decl.prop = S_aspectRatio
      [] f = "containerQueries" -> IsContainerProp(decl.prop)
      [] f = "scrollSnap" -> startsWith(decl.prop, S_scrollSnap)
      [] f = "subgrid" -> decl.prop = S_gridTemplateColumns /\ includes(decl.value, S_subgrid)
      [] OTHER -> FALSE

RECURSIVE CSSMatchLines(_, _)
CSSMatchLines(f, sheet) ==
    IF sheet = <<>> THEN <<>>
    ELSE LET rule == Head(sheet)
         IN  (IF f = "has" /\ rule.selector.valid
              THEN LinesWhere(rule.selector.pseudos, LAMBDA ps : ps.value = ":has")
              ELSE <<>>)
               \o LinesWhere(rule.decls, LAMBDA decl : CSSDeclMatches(f, decl))
               \o CSSMatchLines(f, Tail(sheet))

MatchLines(f) ==
    IF source.dialect = "js" THEN JSMatchLines(f, source.tree) ELSE CSSMatchLines(f, source.tree)

\* The number of occurrences of `feats` that satisfy Test.
HowMany(feats, Test(_)) == Cardinality({i \in 1..Len(feats) : Test(feats[i])})

\* The number of constructions of AbortController among the top-level
\* statements of `tree` and the initializers of their declarators.
RECURSIVE AbortConstructions(_)
AbortConstructions(tree) ==
    IF tree = <<>> THEN 0
    ELSE LET node == Head(tree)
         IN  (IF node.type = "ExpressionStatement" /\ IsNewOf(node.expression, "AbortController")
              THEN 1 ELSE 0)
               + (IF node.type = "VariableDeclaration"
                  THEN Len(SelectSeq(node.declarations, LAMBDA decl : IsNewOf(decl.init, "AbortController")))
                  ELSE 0)
               + AbortConstructions(Tail(tree))

\* C1 (as claimed): a JS file with exactly one construction of AbortController
\* among its top-level statements, as a bare expression statement or as the
\* initializer of a variable declaration, gets exactly one occurrence with key
\* 'aborting' and name 'AbortController'.
C1_OneConstructionOneAborting ==
    (mpc = "returned" /\ source.dialect = "js" /\ AbortConstructions(source.tree) = 1)
        => /\ HowMany(features, LAMBDA o : o.key = "aborting") = 1
           /\ \A i \in 1..Len(features) : features[i].key = "aborting" => features[i].name = S_AbortController

\* C2 (as claimed): the returned sequence holds at most one occurrence per
\* feature key, the key 'fetch' included.
C2_AtMostOnePerKey ==
    mpc = "returned" => \A i, j \in 1..Len(features) : features[i].key = features[j].key => i = j

\* C2 (amended): the returned sequence holds at most one occurrence per display
\* name, and at most one per feature key other than 'fetch'; 'fetch' is the key
\* of at most two occurrences, named 'fetch' and 'fetch with init options'.
C2_AtMostOnePerName ==
    mpc = "returned" =>
        /\ \A i, j \in 1..Len(features) : features[i].name = features[j].name => i = j
        /\ \A i, j \in 1..Len(features) :
              (features[i].key = features[j].key /\ features[i].key # "fetch") => i = j
        /\ \A i \in 1..Len(features) :
              features[i].key = "fetch" => features[i].name \in {S_fetch, S_fetchWithInit}

\* C2 (witness): a file that repeats a shape, the call of fetch with an init
\* object among them, has been matched.
C2_RepeatedShapeMatched ==
    /\ mpc = "returned"
    /\ Len(MatchLines("fetchWithInit")) > 1
    /\ HowMany(features, LAMBDA o : o.key = "fetch") = 2

\* C3: first match wins.  Every flag that is set records the line of the
\* earliest node of its shape in traversal order, at every point of the walk
\* and in what is returned: a later node of the shape never changes it.
C3_FirstMatchWins ==
    /\ mpc # "off" =>
          \A f \in DOMAIN detected :
              detected[f].found =>
                  /\ MatchLines(f) # <<>>
                  /\ detected[f].line = LineOr1(Head(MatchLines(f)))
    /\ mpc = "returned" =>
          Len(features) = Cardinality({f \in DOMAIN detected : detected[f].found})
            /\ \A i \in 1..Len(features) :
                  \E f \in DOMAIN detected :
                      /\ detected[f].found
                      /\ features[i].line = LineOr1(Head(MatchLines(f)))
                      /\ features[i].name =
                            (CASE f = "AbortController" -> S_AbortController
                               [] f = "fetch" -> S_fetch
                               [] f = "fetchWithInit" -> S_fetchWithInit
                               [] f = "PromiseAllSettled" -> S_PromiseAllSettled
                               [] f = "AsyncAwait" -> S_asyncAwait
                               [] f = "IntersectionObserver" -> S_IntersectionObserver
                               [] f = "ArrayAt" -> S_ArrayAt
                               [] f = "WeakRef" -> S_WeakRef
                               [] f = "has" -> S_has
                               [] f = "gap" -> S_gap
                               [] f = "aspectRatio" -> S_aspectRatio
                               [] f = "containerQueries" -> S_containerQueries
                               [] f = "scrollSnap" -> S_scrollSnap
                               [] f = "subgrid" -> S_subgrid)

\* C3 (witness): a JS file and a stylesheet in which a shape occurs on two
\* different lines have been walked to the end, the earlier line recorded.
C3_LaterMatchSeen ==
    /\ mpc = "returned"
    /\ \E f \in DOMAIN detected :
          /\ Len(MatchLines(f)) > 1
          /\ MatchLines(f)[2] # MatchLines(f)[1]
          /\ \E i \in 1..Len(features) : features[i].line = MatchLines(f)[1]

(***************************************************************************)
(* Properties of the classifier.                                           *)
(***************************************************************************)
\* C4: an occurrence whose key is 'nesting' or 'subgrid' is classified
\* 'baseline' whatever the registry holds for that key (no entry, 'low',
\* 'high', false).
C4_OverrideKeysAreBaseline ==
    (classified # <<>> /\ feat.key \in {"nesting", "subgrid"})
        => classified[1].status = S_baseline

\* C4 (witness): a 'nesting' occurrence has been classified against a registry
\* that holds the tier 'low' for 'nesting'.
C4_NestingLowClassified ==
    /\ classified # <<>>
    /\ feat.key = "nesting"
    /\ registry["nesting"] = "low"

\* C5: an occurrence whose key is no override key is classified 'baseline'
\* exactly when the registry holds the tier 'high' for its key, and
\* 'non-baseline' in every other case, a key without entry included.
C5_RegistryTierDecides ==
    (classified # <<>> /\ feat.key \notin {"nesting", "subgrid"})
        => /\ classified[1].status = S_baseline <=> registry[feat.key] = "high"
           /\ classified[1].status # S_baseline => classified[1].status = S_nonBaseline

\* C5 (witness): an occurrence of a key of tier 'low' has been classified
\* 'non-baseline'.
C5_LowTierClassified ==
    /\ classified # <<>>
    /\ feat.key = "fetch"
    /\ registry["fetch"] = "low"
    /\ classified[1].status = S_nonBaseline

(***************************************************************************)
(* Properties of the report pipeline.                                      *)
(***************************************************************************)
IsCssRecord(r) == endsWith(r.file, S_dotCss)

\* C6: with the file type 'css' selected (--filter css in the CLI, the
\* file-type selector in the viewer) every record of the resulting set is of a
\* file that ends in '.css', the viewer's set being exactly the '.css' records
\* of the loaded report that pass the feature filter, and the summary counts
\* are the counts of that set.
C6_CssFilterKeepsCssOnly ==
    /\ options.filter = S_css => \A i \in 1..Len(results) : IsCssRecord(results[i])
    /\ outcome = "report" =>
          /\ printed.features = results
          /\ printed.summary.baseline = HowMany(results, LAMBDA r : r.status = S_baseline)
          /\ printed.summary.non_baseline = HowMany(results, LAMBDA r : r.status = S_nonBaseline)
    /\ (view = "loaded" /\ ~effectPending /\ fileTypeFilter = S_css) =>
          /\ \A i \in 1..Len(filteredFeatures) : IsCssRecord(filteredFeatures[i])
          /\ filteredFeatures =
                SelectSeq(report.features,
                          LAMBDA r : IsCssRecord(r) /\ (featureFilter = <<>> \/ MatchesFeatureFilter(r, featureFilter)))
          /\ ViewSummary.baseline = HowMany(filteredFeatures, LAMBDA r : r.status = S_baseline)
          /\ ViewSummary.non_baseline = HowMany(filteredFeatures, LAMBDA r : r.status = S_nonBaseline)

\* C6 (witness): a run with --filter css over a directory that holds a JS file
\* with features and a stylesheet has printed its report.
C6_CssFilteredRunReported ==
    /\ options.filter = S_css
    /\ outcome = "report"
    /\ \E i \in 1..Len(files) : files[i].path = F_a_js
    /\ \E i \in 1..Len(results) : results[i].file = F_b_css

\* A reader of CSV text.
\* The field that starts at text[i]: its text, the separator that ends it
\* ("," or "\n", "" at the end of the text) and the index after the separator.
\* Outside quotes the field runs to the next separator or quote; inside quotes
\* it runs to the next quote, which stands for itself when it is doubled and
\* closes the quoted part when it is not.
RECURSIVE CsvReadField(_, _, _, _)
CsvReadField(text, i, field, quoted) ==
    LET j == FirstOf(text, i, IF quoted THEN {DoubleQuote} ELSE {DoubleQuote, ",", "\n"})
        got == field \o SubSeq(text, i, j - 1)
    IN  CASE j > Len(text) -> [field |-> got, sep |-> "", next |-> j]
          [] j <= Len(text) /\ ~quoted /\ text[j] # DoubleQuote ->
                [field |-> got, sep |-> text[j], next |-> j + 1]
          [] j <= Len(text) /\ ~quoted /\ text[j] = DoubleQuote ->
                CsvReadField(text, j + 1, got, TRUE)
          [] j < Len(text) /\ quoted /\ text[j + 1] = DoubleQuote ->
                CsvReadField(text, j + 2, Append(got, DoubleQuote), TRUE)
          [] OTHER -> CsvReadField(text, j + 1, got, FALSE)

\* The row that starts at text[i], and the index after its line feed.
RECURSIVE CsvReadRow(_, _, _)
CsvReadRow(text, i, row) ==
    LET f == CsvReadField(text, i, <<>>, FALSE)
    IN  IF f.sep = "," THEN CsvReadRow(text, f.next, Append(row, f.field))
        ELSE [row |-> Append(row, f.field), next |-> f.next]

RECURSIVE CsvReadRows(_, _)
CsvReadRows(text, i) ==
    LET r == CsvReadRow(text, i, <<>>)
    IN  IF r.next > Len(text) THEN <<r.row>> ELSE <<r.row>> \o CsvReadRows(text, r.next)

DigitValue(c) ==
    CASE c = "0" -> 0 [] c = "1" -> 1 [] c = "2" -> 2 [] c = "3" -> 3 [] c = "4" -> 4
      [] c = "5" -> 5 [] c = "6" -> 6 [] c = "7" -> 7 [] c = "8" -> 8 [] c = "9" -> 9
      [] OTHER -> -1

\* The number a field denotes, -1 when it is not a decimal number.
RECURSIVE CsvReadNumber(_, _)
CsvReadNumber(field, acc) ==
    IF field = <<>> THEN acc
    ELSE IF DigitValue(Head(field)) < 0 THEN -1
    ELSE CsvReadNumber(Tail(field), 10 * acc + DigitValue(Head(field)))

CsvGivesBack(text, records) ==
    LET rows == CsvReadRows(text, 1)
    IN  /\ Len(rows) = Len(records) + 1
        /\ rows[1] = <<S_name, S_status, S_file, S_line>>
        /\ \A i \in 1..Len(records) :
              /\ Len(rows[i + 1]) = 4
              /\ rows[i + 1][1] = records[i].name
              /\ rows[i + 1][2] = records[i].status
              /\ rows[i + 1][3] = records[i].file
              /\ rows[i + 1][4] # <<>>
              /\ CsvReadNumber(rows[i + 1][4], 0) = records[i].line

\* C7: the CSV export and the JSON export of a set of records hold the same
\* (name, status, file, line) tuples in the same order: reading the CSV back
\* (quoted fields with doubled quotes, the line as a decimal number) gives the
\* records of the JSON `features` array.  For the CLI writer and for the
\* viewer's downloadCSV and downloadJSON.
C7_CsvAndJsonAgree ==
    /\ written.kind = "csv" => CsvGivesBack(written.text, printed.features)
    /\ written.kind = "json" => written.data = printed
    /\ exported.kind = "csv" => CsvGivesBack(exported.text, JsonDocument(filteredFeatures).data.features)
    /\ exported.kind = "json" => exported.data.features = filteredFeatures

\* C7 (witness): the run has written a CSV report that holds a record of the
\* file whose path contains a double quote and a comma.
C7_CsvWithQuotedPathWritten ==
    /\ written.kind = "csv"
    /\ \E i \in 1..Len(results) : results[i].file = F_g_css
    /\ Len(results) > 1

\* C8: a report file is written only when at least one record was collected.
\* A run that discovers no file ends with 'no files found', a run that
\* discovers files and collects no record ends with 'no features detected',
\* and neither writes anything to the output path.
C8_NoEmptyReportWritten ==
    /\ written.kind # "none" => Len(results) > 0
    /\ pc = "done" =>
          /\ Len(files) = 0 => (outcome = "no files found" /\ written = NoDocument)
          /\ (Len(files) > 0 /\ Len(results) = 0) =>
                (outcome = "no features detected" /\ written = NoDocument)

\* C8 (witness): a run given an output path has ended over a directory whose
\* only file holds no feature.
C8_RunWithoutFeaturesEnded ==
    /\ pc = "done"
    /\ options.output
    /\ Len(files) > 0
    /\ \E i \in 1..Len(files) : files[i].path = F_f_js
    /\ outcome = "no features detected"

\* The records a scan of the files `fs` collects when none of them fails.
FileFails(file) == ~file.readable \/ ~file.parses

RECURSIVE ScanOf(_)
ScanOf(fs) ==
    IF fs = <<>> THEN <<>>
    ELSE ProcessFile(Head(fs), options, registry).pushed \o ScanOf(Tail(fs))

\* C9: a file that cannot be read, or that the parser of its dialect rejects,
\* contributes no record, and the other files contribute what they contribute
\* to a scan of the directory without the failing files.
C9_FailingFileIsSkipped ==
    pc = "done" =>
        /\ results = ScanOf(SelectSeq(files, LAMBDA f : ~FileFails(f)))
        /\ \A i \in 1..Len(files) :
              FileFails(files[i]) => \A j \in 1..Len(results) : results[j].file # files[i].path

\* C9 (witness): a run has ended in which the first file failed to parse and
\* the file after it contributed records.
C9_SiblingOfFailingFileScanned ==
    /\ pc = "done"
    /\ Len(files) = 2
    /\ files[1].readable /\ ~files[1].parses
    /\ \E j \in 1..Len(results) : results[j].file = files[2].path
    /\ \E k \in 1..Len(errors) : errors[k] = [kind |-> "syntax", file |-> files[1].path]

RECURSIVE PathsOf(_)
PathsOf(fs) == IF fs = <<>> THEN <<>> ELSE <<Head(fs).path>> \o PathsOf(Tail(fs))

\* C10: whatever fails (reads, parses, the write of the report), no error
\* leaves the scan: the run ends, with one of 'no files found', 'no features
\* detected' and the printed report, and it has attempted every discovered
\* file that passes the file-type filter once, in traversal order.
C10_ScanAlwaysCompletes ==
    /\ [](pc = "done" =>
            /\ outcome \in {"no files found", "no features detected", "report"}
            /\ reads = PathsOf(SelectSeq(files, LAMBDA f : ~SkippedByFileType(f.path, options))))
    /\ <>(pc = "done")

\* C10 (witness): a run has printed its report after a file could not be read
\* and the write of the report failed.
C10_ReportAfterFailures ==
    /\ pc = "done"
    /\ outcome = "report"
    /\ \E k \in 1..Len(errors) : errors[k].kind = "read"
    /\ \E k \in 1..Len(errors) : errors[k].kind = "write"

(***************************************************************************)
(* Further properties of the matchers and the classifier.                  *)
(***************************************************************************)
\* The registries that hold any tier for 'nesting' and any tier for
\* 'flexbox-gap'.
GapRegistries ==
    {[k \in FeatureKeys |-> IF k = "nesting" THEN n ELSE IF k = "flexbox-gap" THEN g ELSE Undefined] :
        n, g \in Tiers}

\* The source is a stylesheet of one rule whose selector parses and holds
\* :has, and whose body holds `gap` declarations only, one at least.
IsHasGapSheet ==
    /\ source.dialect = "css"
    /\ Len(source.tree) = 1
    /\ source.tree[1].selector.valid
    /\ \E k \in 1..Len(source.tree[1].selector.pseudos) : source.tree[1].selector.pseudos[k].value = ":has"
    /\ source.tree[1].decls # <<>>
    /\ \A j \in 1..Len(source.tree[1].decls) : source.tree[1].decls[j].prop = S_gap

\* C11: for a stylesheet of one rule with :has in its selector and a `gap`
\* declaration as its body, detectCSSFeatures returns exactly two occurrences,
\* ':has' with key 'nesting' and 'gap' with key 'flexbox-gap'; classified, the
\* first is 'baseline' under every registry and the second is 'baseline' under
\* every registry whose tier for 'flexbox-gap' is 'high'.
C11_HasAndGapBothReported ==
    (mpc = "returned" /\ IsHasGapSheet) =>
        /\ Len(features) = 2
        /\ features[1].key = "nesting" /\ features[1].name = S_has
        /\ features[2].key = "flexbox-gap" /\ features[2].name = S_gap
        /\ \A reg \in GapRegistries :
              LET records == ClassifyAll(features, F_b_css, reg)
              IN  /\ Len(records) = 2
                  /\ records[1].status = S_baseline
                  /\ reg["flexbox-gap"] = "high" => records[2].status = S_baseline

\* C11 (witness): the stylesheet `div:has(p) { gap: 1rem; }` has been matched.
C11_HasGapSheetMatched ==
    /\ mpc = "returned"
    /\ IsHasGapSheet
    /\ source.tree = LaidOut(<<Rule(TRUE, <<Pseudo(":has")>>, <<Declaration(S_gap, V_1rem)>>)>>, 1)

(***************************************************************************)
(* Further properties of the report pipeline.                              *)
(***************************************************************************)
\* The summary of `rep` counts the records of its `features` by status, and
\* every record has one of the two statuses.
SummaryCounts(rep) ==
    /\ rep.summary.baseline = HowMany(rep.features, LAMBDA r : r.status = S_baseline)
    /\ rep.summary.non_baseline = HowMany(rep.features, LAMBDA r : r.status = S_nonBaseline)
    /\ \A i \in 1..Len(rep.features) : rep.features[i].status \in {S_baseline, S_nonBaseline}
    /\ rep.summary.baseline + rep.summary.non_baseline = Len(rep.features)

\* C12: in the report the CLI prints and writes, and in the viewer's JSON
\* export, summary.baseline and summary.non_baseline are the numbers of
\* records of `features` with status 'baseline' and 'non-baseline', every
\* record has one of the two statuses, and the two counts add up to the length
\* of `features`; with a feature-name filter active, `features` holds the
\* records that pass it and the counts are theirs.
C12_SummaryCountsRecords ==
    /\ outcome = "report" =>
          /\ SummaryCounts(printed)
          /\ printed.features = results
          /\ options.filter \notin {NoFilter, S_js, S_css} =>
                \A i \in 1..Len(printed.features) :
                    toLowerCase(printed.features[i].name) = toLowerCase(options.filter)
    /\ written.kind = "json" => (SummaryCounts(written.data) /\ written.data = printed)
    /\ exported.kind = "json" =>
          /\ SummaryCounts(exported.data)
          /\ exported.data.features = filteredFeatures
          /\ featureFilter # <<>> =>
                \A i \in 1..Len(exported.data.features) :
                    MatchesFeatureFilter(exported.data.features[i], featureFilter)

\* C12 (witness): the viewer has exported, with the feature filter 'FETCH'
\* typed in, a JSON report that holds some and not all of the loaded records.
C12_FilteredJsonExported ==
    /\ exported.kind = "json"
    /\ featureFilter = O_FETCH
    /\ Len(exported.data.features) > 0
    /\ Len(exported.data.features) < Len(report.features)
    /\ exported.data.summary.baseline + exported.data.summary.non_baseline > 0

\* The position of the file of path `path` in what glob.sync returned.
FilePosition(path) == CHOOSE k \in 1..Len(files) : files[k].path = path

\* The display names in the order of the push statements of the two matchers.
PushOrder ==
    <<S_AbortController, S_fetch, S_fetchWithInit, S_PromiseAllSettled, S_asyncAwait,
      S_IntersectionObserver, S_ArrayAt, S_WeakRef,
      S_has, S_gap, S_aspectRatio, S_containerQueries, S_scrollSnap, S_subgrid>>

PushIndex(name) == CHOOSE k \in 1..Len(PushOrder) : PushOrder[k] = name

\* What the matcher of the file's dialect returns for the first k top-level
\* nodes of the file.
DetectedWithin(file, k) ==
    IF endsWith(file.path, S_dotJs)
    THEN detectJSFeatures(SubSeq(file.tree, 1, k))
    ELSE detectCSSFeatures(SubSeq(file.tree, 1, k))

\* The number of top-level nodes the walk of the file has visited when the
\* feature of display name `name` is first detected.
FirstSeenAt(file, name) ==
    CHOOSE k \in 1..Len(file.tree) :
        /\ \E i \in 1..Len(DetectedWithin(file, k)) : DetectedWithin(file, k)[i].name = name
        /\ \A m \in 1..(k - 1) :
              \A i \in 1..Len(DetectedWithin(file, m)) : DetectedWithin(file, m)[i].name # name

\* C13 (as claimed): the records of a report are in file-then-detection order:
\* the files in traversal order, each file's records together, and within a
\* file a feature detected at an earlier statement or rule before a feature
\* detected at a later one.
C13_FileThenDetectionOrder ==
    pc = "done" =>
        \A i, j \in 1..Len(results) :
            i < j =>
                /\ FilePosition(results[i].file) <= FilePosition(results[j].file)
                /\ results[i].file = results[j].file =>
                      FirstSeenAt(files[FilePosition(results[i].file)], results[i].name)
                        <= FirstSeenAt(files[FilePosition(results[j].file)], results[j].name)

\* C13 (amended): the records of a report are in file-then-rule order: the
\* files in traversal order, each file's records together, and within a file
\* the records in the fixed order of the matcher's push statements, whatever
\* the order the features were detected in.
C13_FileThenPushOrder ==
    pc = "done" =>
        \A i, j \in 1..Len(results) :
            i < j =>
                /\ FilePosition(results[i].file) <= FilePosition(results[j].file)
                /\ results[i].file = results[j].file =>
                      PushIndex(results[i].name) < PushIndex(results[j].name)

\* C13 (witness): a run over two files that both contribute has ended, and a
\* record of a feature detected at a later statement stands before a record of
\* the same file detected at an earlier one.
C13_LaterDetectedStandsFirst ==
    /\ pc = "done"
    /\ \E i, j \in 1..Len(results) : results[i].file # results[j].file
    /\ \E i, j \in 1..Len(results) :
          /\ i < j
          /\ results[i].file = results[j].file
          /\ FirstSeenAt(files[FilePosition(results[i].file)], results[i].name)
               > FirstSeenAt(files[FilePosition(results[j].file)], results[j].name)

\* What the matcher of its dialect returns for a file that is read and parsed.
DetectedIn(file) == DetectedWithin(file, Len(file.tree))

\* The records of the report that are of the file at position k.
RecordsOf(k) == SelectSeq(results, LAMBDA r : r.file = files[k].path)

\* The names of a sequence of occurrences or records, in order.
NamesOf(feats) == [i \in 1..Len(feats) |-> feats[i].name]

\* The file at position k is read, parsed and matched by the run.
Scanned(k) ==
    /\ files[k].readable /\ files[k].parses
    /\ endsWith(files[k].path, S_dotJs) \/ endsWith(files[k].path, S_dotCss)
    /\ options.filter = S_js => endsWith(files[k].path, S_dotJs)
    /\ options.filter = S_css => endsWith(files[k].path, S_dotCss)

\* C14: with a filter value that is neither 'js' nor 'css' the report holds,
\* for every scanned file, exactly the detected occurrences whose display name
\* equals the value when both are lowercased (so 'FETCH' keeps 'fetch' and
\* drops 'fetch with init options'); with the value 'js' or 'css', or without
\* a filter, it holds every detected occurrence of every scanned file, the
\* value restricting the file type only.
C14_NameFilterIsExactMatch ==
    pc = "done" =>
        \A k \in 1..Len(files) :
            IF ~Scanned(k) THEN RecordsOf(k) = <<>>
            ELSE IF options.filter \in {NoFilter, S_js, S_css}
            THEN NamesOf(RecordsOf(k)) = NamesOf(DetectedIn(files[k]))
            ELSE NamesOf(RecordsOf(k)) =
                    SelectSeq(NamesOf(DetectedIn(files[k])),
                              LAMBDA n : toLowerCase(n) = toLowerCase(options.filter))

\* C14 (witness): a run with --filter FETCH over a file with `fetch(u, {})`
\* has ended with the 'fetch' record of that file and no other.
C14_FetchKeptVariantDropped ==
    /\ pc = "done"
    /\ options.filter = O_FETCH
    /\ \E k \in 1..Len(files) :
          /\ files[k].path = F_a_js
          /\ \E i \in 1..Len(DetectedIn(files[k])) : DetectedIn(files[k])[i].name = S_fetchWithInit
          /\ NamesOf(RecordsOf(k)) = <<S_fetch>>

(***************************************************************************)
(* Further properties of the viewer.                                       *)
(***************************************************************************)
\* The record passes the filters the viewer shows now.
PassesCurrentFilters(r) ==
    /\ featureFilter = <<>> \/ includes(toLowerCase(r.name), toLowerCase(featureFilter))
    /\ \/ fileTypeFilter = S_all
       \/ fileTypeFilter = S_js /\ endsWith(r.file, S_dotJs)
       \/ fileTypeFilter = S_css /\ endsWith(r.file, S_dotCss)

\* C15: once the report has loaded, no step of the viewer changes it: it stays
\* the report that was fetched, whatever filter changes are made.  Whenever the
\* filter effect has run, the filtered list is the records of the loaded report
\* that pass the current filter values, whatever the values were before; with
\* the filters back at '' and 'all' it is the whole list again.
C15_FiltersLeaveReportAlone ==
    /\ [](view = "loaded" =>
            /\ report = written.data
            /\ ~effectPending =>
                  /\ filteredFeatures = SelectSeq(report.features, PassesCurrentFilters)
                  /\ (featureFilter = <<>> /\ fileTypeFilter = S_all) =>
                        filteredFeatures = report.features)
    /\ [][view = "loaded" => (view' = "loaded" /\ report' = report)]_vars

\* C15 (witness): with both filters set, the effect has run and left a list
\* that holds some and not all of the records of the loaded report.
C15_BothFiltersNarrowed ==
    /\ view = "loaded" /\ ~effectPending
    /\ featureFilter # <<>> /\ fileTypeFilter # S_all
    /\ Len(filteredFeatures) > 0
    /\ Len(filteredFeatures) < Len(report.features)

\* The index at which a record of the file first stands in the filtered list.
FirstRecordOf(file) ==
    CHOOSE i \in 1..Len(filteredFeatures) :
        /\ filteredFeatures[i].file = file
        /\ \A m \in 1..(i - 1) : filteredFeatures[m].file # file

\* The groups one after the other, in key order.
RECURSIVE Ungrouped(_)
Ungrouped(groups) ==
    IF groups = <<>> THEN <<>> ELSE Head(groups).features \o Ungrouped(Tail(groups))

\* C16: the per-file grouping of the filtered list has one key per file path
\* of the list, maps it to the filtered records of that file in their order in
\* the list, and has its keys in first-seen order; the groups one after the
\* other hold every record of the list exactly once.
C16_GroupingKeepsEveryRecord ==
    view = "loaded" =>
        /\ \A g, h \in 1..Len(featuresByFile) :
              featuresByFile[g].file = featuresByFile[h].file => g = h
        /\ \A i \in 1..Len(filteredFeatures) :
              \E g \in 1..Len(featuresByFile) : featuresByFile[g].file = filteredFeatures[i].file
        /\ \A g \in 1..Len(featuresByFile) :
              /\ featuresByFile[g].features # <<>>
              /\ featuresByFile[g].features =
                    SelectSeq(filteredFeatures, LAMBDA r : r.file = featuresByFile[g].file)
        /\ \A g, h \in 1..Len(featuresByFile) :
              g < h => FirstRecordOf(featuresByFile[g].file) < FirstRecordOf(featuresByFile[h].file)
        /\ Len(Ungrouped(featuresByFile)) = Len(filteredFeatures)
        /\ \A i \in 1..Len(filteredFeatures) :
              HowMany(Ungrouped(featuresByFile), LAMBDA r : r = filteredFeatures[i])
                = HowMany(filteredFeatures, LAMBDA r : r = filteredFeatures[i])

\* C16 (witness): the viewer shows a list with records of two files, several
\* of one of them.
C16_TwoFilesGrouped ==
    /\ view = "loaded"
    /\ Len(featuresByFile) = 2
    /\ \E g \in 1..Len(featuresByFile) : Len(featuresByFile[g].features) > 1

\* The stylesheet with the selector of every rule that does not parse
\* replaced by a selector that parses and holds no pseudo-class.
WithoutBadSelectors(sheet) ==
    [k \in 1..Len(sheet) |->
        IF sheet[k].selector.valid THEN sheet[k]
        ELSE [sheet[k] EXCEPT !.selector = [valid |-> TRUE, pseudos |-> <<>>]]]

\* C17: a rule whose selector does not parse does not make detectCSSFeatures
\* fail.  The rule contributes no ':has' occurrence, its declarations are
\* scanned like those of any rule, and so are the other rules: what is
\* returned is what is returned for the stylesheet with a plain selector in
\* the place of each malformed one, and every declaration-based feature whose
\* declaration stands in the stylesheet is among it.
C17_BadSelectorSkippedOnly ==
    (mpc = "returned" /\ source.dialect = "css") =>
        /\ features = detectCSSFeatures(WithoutBadSelectors(source.tree))
        /\ \A k \in 1..Len(source.tree) :
              \A j \in 1..Len(source.tree[k].decls) :
                  /\ source.tree[k].decls[j].prop = S_gap =>
                        \E i \in 1..Len(features) : features[i].key = "flexbox-gap"
                  /\ source.tree[k].decls[j].prop = S_aspectRatio =>
                        \E i \in 1..Len(features) : features[i].key = "aspect-ratio"
                  /\ source.tree[k].decls[j].prop \in {S_containerType, S_containerName, S_container} =>
                        \E i \in 1..Len(features) : features[i].key = "container-queries"
        /\ (\E i \in 1..Len(features) : features[i].key = "nesting") =>
              \E k \in 1..Len(source.tree) :
                  /\ source.tree[k].selector.valid
                  /\ \E m \in 1..Len(source.tree[k].selector.pseudos) :
                        source.tree[k].selector.pseudos[m].value = ":has"

\* C17 (witness): a stylesheet has been matched in which a rule with a
\* malformed selector that holds :has has a `gap` declaration, and 'gap' is
\* returned without ':has'.
C17_BadSelectorWithGapMatched ==
    /\ mpc = "returned" /\ source.dialect = "css"
    /\ \E k \in 1..Len(source.tree) :
          /\ ~source.tree[k].selector.valid
          /\ \E m \in 1..Len(source.tree[k].selector.pseudos) :
                source.tree[k].selector.pseudos[m].value = ":has"
          /\ \E j \in 1..Len(source.tree[k].decls) : source.tree[k].decls[j].prop = S_gap
    /\ \E i \in 1..Len(features) : features[i].name = S_gap
    /\ \A i \in 1..Len(features) : features[i].name # S_has

(***************************************************************************)
(* Further properties of the JS matcher                                    *)
(***************************************************************************)
\* Some occurrence of the list has the name and the key.
Reports(feats, name, key) ==
    \E i \in 1..Len(feats) : feats[i].name = name /\ feats[i].key = key

\* C18: a JS file with a top-level fetch call whose second argument is an
\* object literal yields 'fetch with init options' (key 'fetch') next to
\* 'fetch', wherever the call stands among the fetch statements of the file.
C18_InitObjectReportedAnywhere ==
    (mpc = "returned" /\ source.dialect = "js"
       /\ \E i \in 1..Len(source.tree) :
             IsFetchStatement(source.tree[i]) /\ HasInitObject(source.tree[i])) =>
        /\ Reports(features, S_fetchWithInit, "fetch")
        /\ Reports(features, S_fetch, "fetch")

\* C19: a JS file whose top-level statements hold an async function
\* declaration, an async arrow function as a variable initializer, or an
\* await expression statement yields 'async-await'.
C19_AsyncFormsReported ==
    (mpc = "returned" /\ source.dialect = "js"
       /\ \E i \in 1..Len(source.tree) :
             \/ source.tree[i].type = "FunctionDeclaration" /\ source.tree[i].async
             \/ /\ source.tree[i].type = "ExpressionStatement"
                /\ source.tree[i].expression.type = "AwaitExpression"
             \/ /\ source.tree[i].type = "VariableDeclaration"
                /\ \E j \in 1..Len(source.tree[i].declarations) :
                      /\ source.tree[i].declarations[j].init.type = "ArrowFunctionExpression"
                      /\ source.tree[i].declarations[j].init.async) =>
        Reports(features, S_asyncAwait, "async-await")

\* C20: a JS file that constructs IntersectionObserver at the top level, as
\* an expression statement or as a variable initializer, yields
\* 'intersection-observer', and one in which a WeakRef construction is a
\* top-level variable initializer yields 'weak-references'.
C20_ObserverAndWeakRefReported ==
    (mpc = "returned" /\ source.dialect = "js") =>
        /\ (\E i \in 1..Len(source.tree) :
               \/ /\ source.tree[i].type = "ExpressionStatement"
                  /\ IsNewOf(source.tree[i].expression, "IntersectionObserver")
               \/ /\ source.tree[i].type = "VariableDeclaration"
                  /\ \E j \in 1..Len(source.tree[i].declarations) :
                        IsNewOf(source.tree[i].declarations[j].init, "IntersectionObserver")) =>
              Reports(features, S_IntersectionObserver, "intersection-observer")
        /\ (\E i \in 1..Len(source.tree) :
               /\ source.tree[i].type = "VariableDeclaration"
               /\ \E j \in 1..Len(source.tree[i].declarations) :
                     IsNewOf(source.tree[i].declarations[j].init, "WeakRef")) =>
              Reports(features, S_WeakRef, "weak-references")

(***************************************************************************)
(* Further properties of the CSS matcher                                   *)
(***************************************************************************)
\* The rule table for declarations: the keys a declaration stands for.
DeclarationKeys(decl) ==
    (IF decl.prop = S_gap THEN {"flexbox-gap"} ELSE {})
      \cup (IF decl.prop = S_aspectRatio THEN {"aspect-ratio"} ELSE {})
      \cup (IF decl.prop \in {S_containerType, S_containerName, S_container} THEN {"container-queries"} ELSE {})
      \cup (IF startsWith(decl.prop, S_scrollSnap) THEN {"scroll-snap"} ELSE {})
      \cup (IF decl.prop = S_gridTemplateColumns /\ includes(decl.value, S_subgrid) THEN {"subgrid"} ELSE {})

\* The declarations of a stylesheet.
DeclarationsOf(sheet) ==
    UNION {{sheet[k].decls[j] : j \in 1..Len(sheet[k].decls)} : k \in 1..Len(sheet)}

\* C21: the keys detectCSSFeatures returns for the declarations of a
\* stylesheet are the keys the rule table gives them ('gap' 'flexbox-gap',
\* 'aspect-ratio' 'aspect-ratio', the three container properties
\* 'container-queries', a name beginning with 'scroll-snap' 'scroll-snap',
\* 'grid-template-columns' with 'subgrid' in its value 'subgrid'), and a
\* declaration the table does not name yields none.
C21_DeclarationsFollowRuleTable ==
    (mpc = "returned" /\ source.dialect = "css") =>
        {features[i].key : i \in 1..Len(features)} \ {"nesting"}
            = UNION {DeclarationKeys(decl) : decl \in DeclarationsOf(source.tree)}

\* C21 (witness): a stylesheet has been matched that holds a
\* grid-template-columns declaration without subgrid next to a scroll-snap
\* property, and scroll-snap alone is returned.
C21_PlainColumnsBesideScrollSnap ==
    /\ mpc = "returned" /\ source.dialect = "css"
    /\ \E decl \in DeclarationsOf(source.tree) :
          decl.prop = S_gridTemplateColumns /\ ~includes(decl.value, S_subgrid)
    /\ \E decl \in DeclarationsOf(source.tree) : decl.prop = P_scrollSnapType
    /\ Len(features) = 1 /\ features[1].key = "scroll-snap" /\ features[1].name = S_scrollSnap

(***************************************************************************)
(* Further properties of the scan                                          *)
(***************************************************************************)
\* C22: every record of the report the CLI produces has a line that is an
\* integer of at least 1; a matched node for which the parser gives no
\* position is reported on line 1.
C22_LinesAreAtLeastOne ==
    /\ \A i \in 1..Len(results) : results[i].line \in Nat /\ results[i].line >= 1
    /\ \A i \in 1..Len(printed.features) :
          printed.features[i].line \in Nat /\ printed.features[i].line >= 1
    /\ \A i \in 1..Len(written.data.features) :
          written.data.features[i].line \in Nat /\ written.data.features[i].line >= 1
    /\ \A k \in 1..Len(files) :
          (k <= fileIndex /\ files[k].path = F_g_css /\ options.filter \in {NoFilter, S_css}) =>
              \E i \in 1..Len(results) : results[i].file = F_g_css /\ results[i].line = 1

\* C22 (witness): a JSON report has been written that holds the records of
\* the stylesheet whose nodes carry no position.
C22_UnpositionedFileReported ==
    /\ pc = "done" /\ written.kind = "json"
    /\ \E i \in 1..Len(written.data.features) :
          written.data.features[i].file = F_g_css /\ written.data.features[i].line = 1
    /\ \E k \in 1..Len(files) :
          /\ files[k].path = F_g_css
          /\ \A j \in 1..Len(files[k].tree) :
                \A m \in 1..Len(files[k].tree[j].decls) : files[k].tree[j].decls[m].line = NoLine

\* The program with the body of every top-level statement emptied.
WithoutBodies(tree) == [i \in 1..Len(tree) |-> [tree[i] EXCEPT !.body = <<>>]]

\* The statement is a block (a function that is not async, a conditional)
\* and nothing else.
IsPlainBlock(node) ==
    node.type = "IfStatement" \/ (node.type = "FunctionDeclaration" /\ ~node.async)

\* C23: a JS feature shape inside a nested construct yields no occurrence.
\* What detectJSFeatures returns is what it returns for the program with
\* every nested body emptied, and a program whose top-level statements are
\* all blocks yields nothing, whatever the blocks hold.
C23_NestedShapesNotReported ==
    (mpc = "returned" /\ source.dialect = "js") =>
        /\ features = detectJSFeatures(WithoutBodies(source.tree))
        /\ (\A i \in 1..Len(source.tree) : IsPlainBlock(source.tree[i])) => features = <<>>

\* C23 (witness): a program has been matched whose only statement is a block
\* that holds a fetch call or a declaration initialized with a construction,
\* and nothing is returned.
C23_ShapeInsideBlockMatched ==
    /\ mpc = "returned" /\ source.dialect = "js"
    /\ Len(source.tree) = 1 /\ IsPlainBlock(source.tree[1])
    /\ \E k \in 1..Len(source.tree[1].body) :
          \/ IsFetchStatement(source.tree[1].body[k])
          \/ /\ source.tree[1].body[k].type = "VariableDeclaration"
             /\ \E j \in 1..Len(source.tree[1].body[k].declarations) :
                   IsNewOf(source.tree[1].body[k].declarations[j].init, "WeakRef")
    /\ features = <<>>

(***************************************************************************)
(* Further properties of the viewer's filters                              *)
(***************************************************************************)
\* `part` stands somewhere in `whole` when letter case is ignored.
ContainsIgnoringCase(whole, part) ==
    \E at \in 0..(Len(whole) - Len(part)) :
        \A j \in 1..Len(part) : LowerChar(whole[at + j]) = LowerChar(part[j])

\* The record is one the viewer shows under the two filter values.
Shown(r, ff, ft) ==
    /\ ContainsIgnoringCase(r.name, ff)
    /\ CASE ft = S_all -> TRUE
         [] ft = S_js  -> Len(r.file) >= 3 /\ SubSeq(r.file, Len(r.file) - 2, Len(r.file)) = S_dotJs
         [] ft = S_css -> Len(r.file) >= 4 /\ SubSeq(r.file, Len(r.file) - 3, Len(r.file)) = S_dotCss
         [] OTHER      -> FALSE

\* How many records of the list have the status.
WithStatus(feats, status) == Cardinality({i \in 1..Len(feats) : feats[i].status = status})

\* C24: in the loaded viewer, once the filter effect has run, the displayed
\* list is the subsequence of report.features whose name contains the feature
\* filter as a case-insensitive substring and whose file matches the
\* file-type filter, and the chart counts and the summary line are the
\* baseline and non-baseline counts of that list.
C24_DisplayedListIsFilteredReport ==
    (view = "loaded" /\ ~effectPending) =>
        /\ filteredFeatures = SelectSeq(report.features, LAMBDA r : Shown(r, featureFilter, fileTypeFilter))
        /\ ViewSummary.baseline = WithStatus(filteredFeatures, S_baseline)
        /\ ViewSummary.non_baseline = WithStatus(filteredFeatures, S_nonBaseline)

\* C24 (witness): with 'FETCH' typed as the feature filter the viewer shows
\* 'fetch' and 'fetch with init options' out of a longer report.
C24_UpperCaseFilterShowsBothFetches ==
    /\ view = "loaded" /\ ~effectPending
    /\ featureFilter = O_FETCH
    /\ Len(filteredFeatures) = 2 /\ Len(report.features) > 2
    /\ filteredFeatures[1].name = S_fetch /\ filteredFeatures[2].name = S_fetchWithInit

\* C25: the viewer fetches the report once, at mount.  While the fetch is
\* unsettled the viewer is loading: there is no report, and no filter value
\* or export changes.  The fetch settles into the loaded state, with the
\* whole feature list of the fetched report as the filtered list, or into
\* the error state, with no report; neither state is ever left.
C25_OneFetchSettlesOnce ==
    /\ [](view = "loading" =>
            /\ report = NoReport /\ filteredFeatures = <<>> /\ exported = NoDocument
            /\ featureFilter = <<>> /\ fileTypeFilter = S_all /\ ~effectPending)
    /\ [](view = "loaded" => report # NoReport)
    /\ [](view = "error" => report = NoReport /\ filteredFeatures = <<>> /\ exported = NoDocument)
    /\ [][view' = "loading" => view \in {"off", "loading"}]_vars
    /\ [][view = "loading" =>
            /\ view' \in {"loading", "loaded", "error"}
            /\ featureFilter' = featureFilter /\ fileTypeFilter' = fileTypeFilter /\ exported' = exported
            /\ view' = "loaded" => (report' = written.data /\ filteredFeatures' = report'.features)]_vars
    /\ [][view = "loaded" => view' = "loaded"]_vars
    /\ [][view = "error" => view' = "error"]_vars

\* C25 (witness): the fetch has just succeeded: the viewer is loaded and shows
\* every record of the report, before any filter change.
C25_ReportJustLoaded ==
    /\ view = "loaded" /\ effectPending
    /\ featureFilter = <<>> /\ fileTypeFilter = S_all
    /\ Len(report.features) > 1 /\ filteredFeatures = report.features

\* The sequence in the opposite order.
Reversed(seq) == [i \in 1..Len(seq) |-> seq[Len(seq) + 1 - i]]

\* The records of the list that are of the file.
BlockOf(records, path) == SelectSeq(records, LAMBDA r : r.file = path)

\* C26: the scan is order-insensitive across files.  The records a file
\* contributes are those it contributes when it is scanned on its own,
\* whatever was processed before it; the scan of the same files in the
\* opposite order has the same block of records for every file and the same
\* summary counts, only the order of the blocks differs; and every step
\* leaves the accumulated records in place, adding at the end only.
C26_ScanIsOrderInsensitive ==
    /\ [](\A k \in 1..Len(files) :
             BlockOf(results, files[k].path)
                 = IF k <= fileIndex THEN ScanOf(<<files[k]>>) ELSE <<>>)
    /\ [](pc = "done" =>
             /\ \A k \in 1..Len(files) :
                   BlockOf(ScanOf(Reversed(files)), files[k].path) = BlockOf(results, files[k].path)
             /\ Report(ScanOf(Reversed(files))).summary = Report(results).summary
             /\ outcome = "report" => printed.summary = Report(ScanOf(Reversed(files))).summary)
    /\ [][Len(results') >= Len(results) /\ SubSeq(results', 1, Len(results)) = results]_vars

\* C26 (witness): the run has ended over two files that both contribute
\* records, and the scan in the opposite order lists them differently.
C26_TwoContributingFilesScanned ==
    /\ pc = "done" /\ Len(files) = 2
    /\ BlockOf(results, files[1].path) # <<>>
    /\ BlockOf(results, files[2].path) # <<>>
    /\ ScanOf(Reversed(files)) # results

\* The path ends in neither '.js' nor '.css'.
IsOfNeitherType(path) == ~endsWith(path, S_dotJs) /\ ~endsWith(path, S_dotCss)

\* The diagnostics on the error stream that name the file.
DiagnosticsOf(path) == SelectSeq(errors, LAMBDA e : e.file = path)

\* C27 (as stated): a discovered file whose name ends in neither '.js' nor
\* '.css' is skipped silently: no record and no diagnostic on the error
\* stream.
C27_NeitherTypeSkippedSilently ==
    \A k \in 1..Len(files) :
        (k <= fileIndex /\ IsOfNeitherType(files[k].path)) =>
            /\ BlockOf(results, files[k].path) = <<>>
            /\ DiagnosticsOf(files[k].path) = <<>>

\* C27 (as the code has it): a discovered file whose name ends in neither
\* '.js' nor '.css' contributes no record.  Under the filter value 'js' or
\* 'css' it is passed over unread and without a diagnostic; otherwise it is
\* read, and one diagnostic names it on the error stream: 'Unsupported file
\* type', or the read error when it cannot be read.
C27_NeitherTypeSkippedWithDiagnostic ==
    \A k \in 1..Len(files) :
        (k <= fileIndex /\ IsOfNeitherType(files[k].path)) =>
            /\ BlockOf(results, files[k].path) = <<>>
            /\ IF options.filter \in {S_js, S_css}
               THEN /\ DiagnosticsOf(files[k].path) = <<>>
                    /\ \A i \in 1..Len(reads) : reads[i] # files[k].path
               ELSE /\ DiagnosticsOf(files[k].path)
                          = <<[kind |-> IF files[k].readable THEN "unsupported" ELSE "read",
                               file |-> files[k].path]>>
                    /\ \E i \in 1..Len(reads) : reads[i] = files[k].path

\* C27 (witness): a run has printed a report over a directory that holds a
\* file of neither type, and the error stream names that file.
C27_NeitherTypeFileReported ==
    /\ pc = "done" /\ outcome = "report"
    /\ \E k \in 1..Len(files) :
          /\ IsOfNeitherType(files[k].path)
          /\ DiagnosticsOf(files[k].path) = <<[kind |-> "unsupported", file |-> files[k].path]>>
          /\ BlockOf(results, files[k].path) = <<>>

\* The positions of the top-level fetch call statements of the program.
FetchStatements(tree) == {i \in 1..Len(tree) : IsFetchStatement(tree[i])}

\* C28: whenever detectJSFeatures returns 'fetch with init options', 'fetch'
\* stands immediately before it with the same line: the variant is recorded
\* only on the statement that first sets the fetch flag, which is the first
\* top-level fetch call and has an object literal as its second argument.
C28_VariantFollowsFetchOnSameLine ==
    (mpc = "returned" /\ source.dialect = "js") =>
        \A i \in 1..Len(features) :
            features[i].name = S_fetchWithInit =>
                /\ i > 1
                /\ features[i - 1].name = S_fetch
                /\ features[i - 1].line = features[i].line
                /\ \E first \in FetchStatements(source.tree) :
                      /\ \A other \in FetchStatements(source.tree) : first <= other
                      /\ HasInitObject(source.tree[first])
                      /\ features[i].line = source.tree[first].line

\* C28 (witness): a program with two fetch calls, the first of them with an
\* init object, has been matched, and both names are returned on its line.
C28_VariantOfFirstOfTwoFetches ==
    /\ mpc = "returned" /\ source.dialect = "js"
    /\ Len(source.tree) = 2
    /\ IsFetchStatement(source.tree[1]) /\ HasInitObject(source.tree[1])
    /\ IsFetchStatement(source.tree[2])
    /\ Len(features) = 2
    /\ features[1].name = S_fetch /\ features[2].name = S_fetchWithInit
    /\ features[1].line = 1 /\ features[2].line = 1

====
